---- MODULE Spec2Model ----
(***************************************************************************)
(* A model of the item randomizer of MapRandomizer                         *)
(* (rust/maprando/src/randomize.rs): construction of the item pool         *)
(* (Randomizer::new), the door-lock randomizer (randomize_doors) and the   *)
(* placement engine (Randomizer::randomize and the steps it runs).         *)
(*                                                                         *)
(* Three state machines share the module, each with variables of its own:  *)
(*   SpecNew    Randomizer::new, over item_pool / starting_items inputs    *)
(*   SpecDoors  randomize_doors, one loop iteration per action             *)
(*   Spec       Randomizer::randomize, one invocation                      *)
(*   SpecTwice  Randomizer::randomize, invoked twice on the same inputs    *)
(*   SpecPools  Randomizer::randomize, also with item pools that name     *)
(*              Nothing                                                    *)
(* The pure functions are checked under specifications of their own, on    *)
(* the variables of Randomizer::new: SpecStart, SpecPrecedence, SpecAreas, *)
(* SpecSplit, SpecHeat and SpecSpeed.                                      *)
(***************************************************************************)
EXTENDS Integers, Sequences, FiniteSets, TLC

VARIABLES
    n_pc,       \* Randomizer::new: "init" before the call, "done" after it
    n_cfg,      \* the inputs of Randomizer::new
    n_out,      \* its outcome: status and initial_items_remaining
    d_pc,       \* randomize_doors: "init", "walk", "maps", "done" or "panic"
    d_cfg,      \* its inputs: doors_mode, objectives, the map layout, seed
    d_types,    \* door_types
    d_conns,    \* door_conns
    d_idxs,     \* the index array of the sample; its first door_types.len()
                \* entries are the sampled indices into door_conns
    d_rng,      \* the state of the generator
    d_i,        \* the position of the walk in d_idxs (1-based)
    d_used_locs,        \* used_locs
    d_used_beam_rooms,  \* used_beam_rooms
    d_locked,   \* locked_doors
    d_skipped,  \* history: the door types of the sampled pairs that were skipped
    d_data,     \* locked_door_node_map and locked_door_vertex_ids
    r_pc,       \* Randomizer::randomize: the position of the call
    r_cfg,      \* its inputs: game data, difficulty tiers, seed, display_seed and
                \* the Randomizer's initial_items_remaining
    r_rng,      \* the state of rng
    r_state,    \* state: RandomizationState
    r_sel,      \* multi_attempt_select_items: the lists of the step, the filler
                \* selection, new_state_filler and the current key selection
    r_step,     \* what the last call of step did (selection, locations, summary)
    r_summaries,\* spoiler_summary_vec
    r_hist,     \* history: for every item location, how its item was placed
    r_result,   \* the returned Result<Randomization>
    r_run,      \* the number of the invocation (1 or 2)
    r_first     \* the result of the first invocation, once a second one runs

newVars == <<n_pc, n_cfg, n_out>>

doorVars == <<d_pc, d_cfg, d_types, d_conns, d_idxs, d_rng, d_i, d_used_locs,
              d_used_beam_rooms, d_locked, d_skipped, d_data>>

randVars == <<r_pc, r_cfg, r_rng, r_state, r_sel, r_step, r_summaries, r_hist, r_result,
              r_run, r_first>>

vars == <<newVars, doorVars, randVars>>

(***************************************************************************)
(* Items (the Item enum, in the order of its discriminants).               *)
(***************************************************************************)
ItemNames ==
    << "ETank", "Missile", "Super", "PowerBomb", "Bombs", "Charge", "Ice",
       "HiJump", "SpeedBooster", "Wave", "Spazer", "SpringBall", "Varia",
       "Gravity", "XRayScope", "Plasma", "Grapple", "SpaceJump",
       "ScrewAttack", "Morph", "ReserveTank", "WallJump", "Nothing" >>

Items == { ItemNames[i] : i \in 1..Len(ItemNames) }

\* iter().sum::<usize>() over a count vector
RECURSIVE SumUpTo(_, _)
SumUpTo(v, n) == IF n = 0 THEN 0 ELSE v[ItemNames[n]] + SumUpTo(v, n - 1)

SumVec(v) == SumUpTo(v, Len(ItemNames))

\* the total count of a Vec<(Item, usize)>
RECURSIVE SumPairs(_)
SumPairs(ps) == IF ps = <<>> THEN 0 ELSE Head(ps)[2] + SumPairs(Tail(ps))

(***************************************************************************)
(* The pseudo-random generator.  StdRng is a library generator; here it is *)
(* a full-period linear congruential generator on 10 bits whose state is   *)
(* set from the seed (rng_seed[..8] = seed, the other bytes zero).  Every  *)
(* draw advances the state; the drawn value is taken from the high bits.   *)
(***************************************************************************)
\* a generator whose seed also depends on which invocation it is
RngFromSeedAndRun(seed) == (seed + r_run) % 1024

RngFromSeed(seed) == seed % 1024

\* rng_seed[..8] = seed, rng_seed[8..24] = t
RngFromSeedAndTime(seed, t) == (seed + 67 * t) % 1024

RngNext(s) == (s * 37 + 11) % 1024

\* gen_range(lo..hi): the value drawn after advancing the state from s
GenRange(s, lo, hi) == lo + ((RngNext(s) \div 8) % (hi - lo))

Swap(seq, i, j) == [seq EXCEPT ![i] = seq[j], ![j] = seq[i]]

\* SliceRandom::shuffle: for i in (1..len).rev() { swap(i, gen_range(0..i + 1)) }
\* (positions are 1-based here); yields the shuffled sequence and the new state.
\* One iteration of that loop, on the sequence and the generator:
ShuffleSwap(st, i) ==
    [seq |-> Swap(st.seq, i, GenRange(st.rng, 1, i + 1)), rng |-> RngNext(st.rng)]

\* the iterations i = hi, hi - 1, ..., lo of the loop, in that order: the
\* upper half of them first, then the lower half on what they leave
RECURSIVE ShuffleRange(_, _, _)
ShuffleRange(st, hi, lo) ==
    IF hi < lo \/ Len(st.seq) < hi THEN st
    ELSE IF hi = lo THEN ShuffleSwap(st, hi)
    ELSE LET mid == (hi + lo) \div 2
         IN  ShuffleRange(ShuffleRange(st, hi, mid + 1), mid, lo)

Shuffle(seq, s) == ShuffleRange([seq |-> seq, rng |-> s], Len(seq), 2)

\* rand::seq::index::sample(rng, length, amount), in-place variant:
\* for i in 0..amount { swap(i, gen_range(i..length)) }, the first amount kept.
\* One iteration of that loop, at (1-based) position i of the index array:
SampleSwap(indices, s, i) == Swap(indices, i, GenRange(s, i, Len(indices) + 1))

(***************************************************************************)
(* Randomizer::new: initial_items_remaining.                               *)
(* usize subtraction that would go below zero is an overflow: a debug      *)
(* build panics, a release build wraps to a count near 2^64; both are the  *)
(* outcome "underflow" here, and no usable Randomizer results.             *)
(***************************************************************************)
Underflow == [status |-> "underflow", remaining |-> <<>>, nothing_in |-> 0]

BaseCounts(wall_jump) ==
    [i \in Items |->
        CASE i = "Nothing"     -> 0
          [] i = "WallJump"    -> IF wall_jump = "Collectible" THEN 1 ELSE 0
          [] i = "Super"       -> 10
          [] i = "PowerBomb"   -> 10
          [] i = "ETank"       -> 14
          [] i = "ReserveTank" -> 4
          [] OTHER             -> 1]

\* for &(item, cnt) in item_pool { initial_items_remaining[item] = cnt }
RECURSIVE ApplyItemPool(_, _)
ApplyItemPool(v, pool) ==
    IF pool = <<>> THEN v
    ELSE ApplyItemPool([v EXCEPT ![Head(pool)[1]] = Head(pool)[2]], Tail(pool))

\* ridley_proficiency is given in hundredths
TankFloor(ridley_proficiency) ==
    IF ridley_proficiency < 30 THEN 11
    ELSE IF ridley_proficiency < 80 THEN 9
    ELSE IF ridley_proficiency < 90 THEN 7
    ELSE 3

\* while ETank + ReserveTank < floor { ETank += 1 }
EnsureEnoughTanks(v, ridley_proficiency) ==
    LET floor == TankFloor(ridley_proficiency)
    IN  IF v["ETank"] + v["ReserveTank"] < floor
        THEN [v EXCEPT !["ETank"] = floor - v["ReserveTank"]]
        ELSE v

\* for &(item, cnt) in starting_items { remaining[item] -= min(cnt, remaining[item]) }
RECURSIVE SubtractStarting(_, _)
SubtractStarting(v, starting) ==
    IF starting = <<>> THEN v
    ELSE LET item == Head(starting)[1]
             cnt  == Head(starting)[2]
             take == IF cnt < v[item] THEN cnt ELSE v[item]
         IN  SubtractStarting([v EXCEPT ![item] = @ - take], Tail(starting))

FillNothingSkipped(v, num_locs) == v

\* initial_items_remaining[Nothing] = item_locations.len() - sum
FillNothing(v, num_locs) ==
    [v EXCEPT !["Nothing"] = num_locs - SumVec(v)]

NewItemsRemaining(num_locs, wall_jump, ridley_proficiency, item_pool, starting_items) ==
    LET base == BaseCounts(wall_jump)
    IN  IF num_locs < SumVec(base) THEN Underflow
        ELSE
        LET v1 == [base EXCEPT !["Missile"] = num_locs - SumVec(base)]
            v2 == ApplyItemPool(v1, item_pool)
            v3 == EnsureEnoughTanks(v2, ridley_proficiency)
            excess == SumVec(v3) - num_locs
        IN  IF excess > 0 /\ v3["Missile"] < excess THEN Underflow
            ELSE
            LET v4 == IF excess > 0 THEN [v3 EXCEPT !["Missile"] = @ - excess] ELSE v3
                v5 == SubtractStarting(v4, starting_items)
            IN  \* assert!(sum <= item_locations.len()) holds here: v4 sums to at most
                \* num_locs and v5 only lowers counts
                [status |-> "ok",
                 remaining |-> FillNothing(v5, num_locs),
                 nothing_in |-> v5["Nothing"]]

(***************************************************************************)
(* SpecNew: Randomizer::new over bounded item_pool / starting_items.       *)
(***************************************************************************)
MaxPoolLen == 1
MaxStartLen == 1

NewLocCounts == {57, 100}
RidleyProficiencies == {0, 50, 85, 100}
PoolEntries == { <<i, c>> : i \in {"Missile", "Super", "Nothing"}, c \in {0, 5, 60} }
StartEntries == { <<i, c>> : i \in {"Missile", "Morph", "ETank"}, c \in {1, 20} }

SeqsUpTo(S, n) == UNION { [1..k -> S] : k \in 0..n }

RandIdle ==
    /\ r_pc = "idle"
    /\ r_cfg = <<>>
    /\ r_rng = 0
    /\ r_state = <<>>
    /\ r_sel = <<>>
    /\ r_step = <<>>
    /\ r_summaries = <<>>
    /\ r_hist = <<>>
    /\ r_result = <<>>
    /\ r_run = 0
    /\ r_first = <<>>

NewIdle == n_pc = "idle" /\ n_cfg = <<>> /\ n_out = <<>>

DoorsIdle ==
    /\ d_pc = "idle"
    /\ d_cfg = <<>>
    /\ d_types = <<>>
    /\ d_conns = <<>>
    /\ d_idxs = <<>>
    /\ d_rng = 0
    /\ d_i = 0
    /\ d_used_locs = {}
    /\ d_used_beam_rooms = {}
    /\ d_locked = <<>>
    /\ d_skipped = <<>>
    /\ d_data = <<>>

NewInit ==
    /\ DoorsIdle
    /\ RandIdle
    /\ n_pc = "init"
    /\ n_cfg \in [num_locs : NewLocCounts,
                  wall_jump : {"Vanilla", "Collectible"},
                  ridley_proficiency : RidleyProficiencies,
                  item_pool : SeqsUpTo(PoolEntries, MaxPoolLen),
                  starting_items : SeqsUpTo(StartEntries, MaxStartLen)]
    /\ n_out = [status |-> "none", remaining |-> <<>>, nothing_in |-> 0]

New ==
    /\ n_pc = "init"
    /\ n_pc' = "done"
    /\ n_out' = NewItemsRemaining(n_cfg.num_locs, n_cfg.wall_jump,
                                  n_cfg.ridley_proficiency, n_cfg.item_pool,
                                  n_cfg.starting_items)
    /\ UNCHANGED n_cfg
    /\ UNCHANGED <<doorVars, randVars>>

NewNext == New

SpecNew == NewInit /\ [][NewNext]_vars

NewReturned == n_pc = "done" /\ n_out.status = "ok"

(***************************************************************************)
(* C8 (as stated): after Randomizer::new, sum(initial_items_remaining)     *)
(* plus the total count of starting items equals the number of item        *)
(* locations.                                                              *)
(***************************************************************************)
C8_StartBalance ==
    NewReturned =>
        SumVec(n_out.remaining) + SumPairs(n_cfg.starting_items) = n_cfg.num_locs

(***************************************************************************)
(* C8 (amended): whenever Randomizer::new returns, the counts of           *)
(* initial_items_remaining sum to the number of item locations less the    *)
(* Nothing count that item_pool had set before the final fill (so to       *)
(* exactly the number of item locations when item_pool does not name       *)
(* Nothing); starting items are taken out of the pool and the gap is       *)
(* filled with Nothing, they are not part of the balance.                  *)
(***************************************************************************)
C8_TotalIsLocations ==
    NewReturned =>
        SumVec(n_out.remaining) = n_cfg.num_locs - n_out.nothing_in

\* new returned for a configuration whose starting items took copies out of
\* the pool, and the pool still fills every location
C8_Witness ==
    /\ NewReturned
    /\ SumPairs(n_cfg.starting_items) > 0
    /\ n_out.nothing_in = 0
    /\ n_out.remaining["Nothing"] > 1
    /\ SumVec(n_out.remaining) = n_cfg.num_locs

(***************************************************************************)
(* randomize_doors.                                                        *)
(*                                                                         *)
(* The map: NumConns door connections in map.doors; connection c joins     *)
(* door 2c-1 (its source, in room c) to door 2c (its destination, in room  *)
(* c+1), so that room r holds the destination door of connection r-1 and   *)
(* the source door of connection r.  A door stands for its DoorPtrPair and *)
(* for its (room_id, node_id).  In a layout with single-tile rooms the two *)
(* doors of such a room lie on the same map tile.                          *)
(***************************************************************************)
NumConns == 62
NumSeeds == 2

NumDoors == 2 * NumConns

\* map.doors
MapDoors == [c \in 1..NumConns |-> <<2 * c - 1, 2 * c>>]

IsSrcDoor(d) == d % 2 = 1

RoomOf(d) == IF IsSrcDoor(d) THEN (d + 1) \div 2 ELSE (d \div 2) + 1

SingleTileRoom(layout, r) == layout > 0 /\ r % layout = 0

\* get_loc: (room_idx, door.x, door.y)
GetLoc(layout, d) ==
    IF SingleTileRoom(layout, RoomOf(d)) \/ ~IsSrcDoor(d)
    THEN <<RoomOf(d), 0, 0>>
    ELSE <<RoomOf(d), 1, 0>>

\* door.offset.is_some()
HasDoorCap(d) == d % 37 # 0

\* the fixed part of non_randomizable_doors (gray, save, map, refill, ... doors)
NonRandomizableFixed == { d \in 1..NumDoors : d % 41 = 0 }

\* the doors an objective adds to non_randomizable_doors
ObjectiveDoors(objective) ==
    CASE objective = "SporeSpawn"   -> {10}
      [] objective = "MetroidRoom1" -> {13, 16}
      [] OTHER                      -> {}

NonRandomizableDoors(objectives) ==
    NonRandomizableFixed \cup UNION { ObjectiveDoors(o) : o \in objectives }

\* get_randomizable_doors
GetRandomizableDoors(objectives) ==
    { d \in 1..NumDoors : HasDoorCap(d) /\ d \notin NonRandomizableDoors(objectives) }

\* get_randomizable_door_connections: the connections of map.doors, in their
\* order, whose two doors are both randomizable
GetRandomizableDoorConnections(objectives) ==
    LET doors == GetRandomizableDoors(objectives)
        kept  == { c \in 1..NumConns : MapDoors[c][1] \in doors /\ MapDoors[c][2] \in doors }
        nth(k) == CHOOSE c \in kept : Cardinality({ b \in kept : b <= c }) = k
    IN  [k \in 1..Cardinality(kept) |-> MapDoors[nth(k)]]

Repeat(x, n) == [k \in 1..n |-> x]

BeamTypes == {"Charge", "Ice", "Wave", "Spazer", "Plasma"}

IsBeam(door_type) == door_type \in BeamTypes

DoorTypesShort(doors_mode) ==
    CASE doors_mode = "Blue" -> <<>>
      [] doors_mode = "Ammo" ->
            Repeat("Red", 30) \o Repeat("Green", 15) \o Repeat("Yellow", 9)
      [] doors_mode = "Beam" ->
            Repeat("Red", 18) \o Repeat("Green", 10) \o Repeat("Yellow", 7)
            \o Repeat("Charge", 4) \o Repeat("Ice", 4) \o Repeat("Wave", 4)
            \o Repeat("Spazer", 4) \o Repeat("Plasma", 3)

\* door_types, by doors_mode
DoorTypes(doors_mode) ==
    CASE doors_mode = "Blue" -> <<>>
      [] doors_mode = "Ammo" ->
            Repeat("Red", 30) \o Repeat("Green", 15) \o Repeat("Yellow", 10)
      [] doors_mode = "Beam" ->
            Repeat("Red", 18) \o Repeat("Green", 10) \o Repeat("Yellow", 7)
            \o Repeat("Charge", 4) \o Repeat("Ice", 4) \o Repeat("Wave", 4)
            \o Repeat("Spazer", 4) \o Repeat("Plasma", 4)

UsedLocsSrcOnly(used, src_loc, dst_loc) == used \cup {src_loc}

\* used_locs.insert(src_loc); used_locs.insert(dst_loc)
UsedLocsInsert(used, src_loc, dst_loc) == used \cup {src_loc, dst_loc}

\* the twin-room aliases of locked_door_node_map: (313, 1) -> (32, 7),
\* (313, 2) -> (32, 8), (322, 2) -> (220, 2); an alias node gets a number
\* above the doors'
TwinAliases == { <<3, NumDoors + 1>>, <<4, NumDoors + 2>>, <<9, NumDoors + 3>> }

\* locked_door_node_map: both endpoints of every locked door (bidirectional is
\* always true), a later door replacing an earlier one, then the aliases
LockedDoorNodeMap(locked) ==
    LET at(d) == { n \in 1..Len(locked) : d \in {locked[n].src, locked[n].dst} }
        m  == [d \in { e \in 1..NumDoors : at(e) # {} } |->
                  CHOOSE n \in at(d) : \A k \in at(d) : k <= n]
        al == { a \in TwinAliases : a[1] \in DOMAIN m }
    IN  [d \in DOMAIN m \cup { a[2] : a \in al } |->
            IF d \in DOMAIN m THEN m[d]
            ELSE m[(CHOOSE a \in al : a[2] = d)[1]]]

\* locked_door_vertex_ids: node_door_unlock holds one unlock vertex per door
\* node, numbered like the node
LockedDoorVertexIds(locked, node_map) ==
    [i \in 1..Len(locked) |-> { d \in DOMAIN node_map : node_map[d] = i }]

DoorLayouts == {0, 7}
DoorObjectiveSets == { {}, {"SporeSpawn"}, {"SporeSpawn", "MetroidRoom1"} }

DoorsInit ==
    /\ NewIdle
    /\ RandIdle
    /\ d_pc = "init"
    /\ d_cfg \in [doors_mode : {"Blue", "Ammo", "Beam"},
                  objectives : DoorObjectiveSets,
                  layout : DoorLayouts,
                  seed : 0..(NumSeeds - 1)]
    /\ d_types = <<>>
    /\ d_conns = <<>>
    /\ d_idxs = <<>>
    /\ d_rng = 0
    /\ d_i = 0
    /\ d_used_locs = {}
    /\ d_used_beam_rooms = {}
    /\ d_locked = <<>>
    /\ d_skipped = <<>>
    /\ d_data = <<>>

\* lines 2461-2503: the generator, door_types, door_conns, and the start of
\* index::sample, which panics when asked for more indices than there are
\* connections
DoorsBegin ==
    /\ d_pc = "init"
    /\ LET types == DoorTypes(d_cfg.doors_mode)
           conns == GetRandomizableDoorConnections(d_cfg.objectives)
       IN  /\ d_types' = types
           /\ d_conns' = conns
           /\ d_idxs' = [k \in 1..Len(conns) |-> k]
           /\ d_pc' = IF Len(types) > Len(conns) THEN "panic" ELSE "sample"
    /\ d_rng' = RngFromSeed(d_cfg.seed)
    /\ d_i' = 1
    /\ UNCHANGED <<d_cfg, d_used_locs, d_used_beam_rooms, d_locked, d_skipped, d_data>>
    /\ UNCHANGED <<newVars, randVars>>

\* line 2503: one iteration of the sample's loop
DoorsSample ==
    /\ d_pc = "sample"
    /\ d_i <= Len(d_types)
    /\ d_idxs' = SampleSwap(d_idxs, d_rng, d_i)
    /\ d_rng' = RngNext(d_rng)
    /\ d_i' = d_i + 1
    /\ UNCHANGED <<d_pc, d_cfg, d_types, d_conns, d_used_locs, d_used_beam_rooms,
                   d_locked, d_skipped, d_data>>
    /\ UNCHANGED <<newVars, randVars>>

\* lines 2503-2504: the sample is complete, the walk starts
DoorsSampled ==
    /\ d_pc = "sample"
    /\ d_i > Len(d_types)
    /\ d_pc' = "walk"
    /\ d_i' = 1
    /\ UNCHANGED <<d_cfg, d_types, d_conns, d_idxs, d_rng, d_used_locs,
                   d_used_beam_rooms, d_locked, d_skipped, d_data>>
    /\ UNCHANGED <<newVars, randVars>>

WalkConn == d_conns[d_idxs[d_i]]
WalkSrcLoc == GetLoc(d_cfg.layout, WalkConn[1])
WalkDstLoc == GetLoc(d_cfg.layout, WalkConn[2])
WalkType == d_types[d_i]
Walking == d_pc = "walk" /\ d_i <= Len(d_types)
TileUsed == WalkSrcLoc \in d_used_locs \/ WalkDstLoc \in d_used_locs
BeamRoomUsed ==
    /\ IsBeam(WalkType)
    /\ (WalkSrcLoc[1] \in d_used_beam_rooms \/ WalkDstLoc[1] \in d_used_beam_rooms)

\* lines 2517-2519: a tile of the pair already holds a lock
DoorsSkipTile ==
    /\ Walking
    /\ TileUsed
    /\ d_skipped' = Append(d_skipped, WalkType)
    /\ d_i' = d_i + 1
    /\ UNCHANGED <<d_pc, d_cfg, d_types, d_conns, d_idxs, d_rng, d_used_locs,
                   d_used_beam_rooms, d_locked, d_data>>
    /\ UNCHANGED <<newVars, randVars>>

\* lines 2520-2525: a room of the pair already holds a beam lock
DoorsSkipBeamRoom ==
    /\ Walking
    /\ ~TileUsed
    /\ BeamRoomUsed
    /\ d_skipped' = Append(d_skipped, WalkType)
    /\ d_i' = d_i + 1
    /\ UNCHANGED <<d_pc, d_cfg, d_types, d_conns, d_idxs, d_rng, d_used_locs,
                   d_used_beam_rooms, d_locked, d_data>>
    /\ UNCHANGED <<newVars, randVars>>

\* lines 2526-2531: the pair is locked
DoorsLock ==
    /\ Walking
    /\ ~TileUsed
    /\ ~BeamRoomUsed
    /\ d_used_beam_rooms' =
          IF IsBeam(WalkType)
          THEN d_used_beam_rooms \cup {WalkSrcLoc[1], WalkDstLoc[1]}
          ELSE d_used_beam_rooms
    /\ d_used_locs' = UsedLocsInsert(d_used_locs, WalkSrcLoc, WalkDstLoc)
    /\ d_locked' = Append(d_locked, [src |-> WalkConn[1], dst |-> WalkConn[2],
                                     door_type |-> WalkType, bidirectional |-> TRUE])
    /\ d_i' = d_i + 1
    /\ UNCHANGED <<d_pc, d_cfg, d_types, d_conns, d_idxs, d_rng, d_skipped, d_data>>
    /\ UNCHANGED <<newVars, randVars>>

\* lines 2534-2570: the node map, the unlock vertices, the result
DoorsFinish ==
    /\ d_pc = "walk"
    /\ d_i > Len(d_types)
    /\ d_pc' = "done"
    /\ d_data' = LET m == LockedDoorNodeMap(d_locked)
                 IN  [locked_door_node_map |-> m,
                      locked_door_vertex_ids |-> LockedDoorVertexIds(d_locked, m)]
    /\ UNCHANGED <<d_cfg, d_types, d_conns, d_idxs, d_rng, d_i, d_used_locs,
                   d_used_beam_rooms, d_locked, d_skipped>>
    /\ UNCHANGED <<newVars, randVars>>

DoorsNext ==
    \/ DoorsBegin \/ DoorsSample \/ DoorsSampled
    \/ DoorsSkipTile \/ DoorsSkipBeamRoom \/ DoorsLock \/ DoorsFinish

SpecDoors == DoorsInit /\ [][DoorsNext]_vars

CountType(seq, t) == Cardinality({ k \in 1..Len(seq) : seq[k] = t })
LockedTypes == [k \in 1..Len(d_locked) |-> d_locked[k].door_type]
LockLocs(k) == { GetLoc(d_cfg.layout, d_locked[k].src), GetLoc(d_cfg.layout, d_locked[k].dst) }
LockRooms(k) == { RoomOf(d_locked[k].src), RoomOf(d_locked[k].dst) }

(***************************************************************************)
(* C9: in the locked doors of randomize_doors (at every point of the walk  *)
(* and in the result) no map tile (room_idx, x, y) is the source or        *)
(* destination tile of two different locked doors, no room is the source   *)
(* or destination room of two different beam-locked doors, and no endpoint *)
(* of a locked door is a door of the non-randomizable deny-list, the       *)
(* objective-dependent exclusions included.                                *)
(***************************************************************************)
C9_DoorLockExclusion ==
    d_pc \in {"walk", "done"} =>
        /\ \A j, k \in 1..Len(d_locked) :
              j # k => LockLocs(j) \cap LockLocs(k) = {}
        /\ \A j, k \in 1..Len(d_locked) :
              (j # k /\ IsBeam(d_locked[j].door_type) /\ IsBeam(d_locked[k].door_type))
                  => LockRooms(j) \cap LockRooms(k) = {}
        /\ \A k \in 1..Len(d_locked) :
              /\ d_locked[k].src \notin NonRandomizableDoors(d_cfg.objectives)
              /\ d_locked[k].dst \notin NonRandomizableDoors(d_cfg.objectives)
              /\ HasDoorCap(d_locked[k].src) /\ HasDoorCap(d_locked[k].dst)

\* a finished Beam-mode run with an objective exclusion in force, in which a
\* pair was skipped for its tile, a beam pair was skipped, and beam locks stand
C9_Witness ==
    /\ d_pc = "done"
    /\ d_cfg.doors_mode = "Beam"
    /\ d_cfg.objectives # {}
    /\ \E k \in 1..Len(d_skipped) : IsBeam(d_skipped[k])
    /\ \E k \in 1..Len(d_skipped) : ~IsBeam(d_skipped[k])
    /\ Cardinality({ k \in 1..Len(d_locked) : IsBeam(d_locked[k].door_type) }) >= 2

(***************************************************************************)
(* C10 (as stated): randomize_doors returns one locked door for every      *)
(* entry of the mode's lock-count list: Ammo 30 Red, 15 Green, 10 Yellow   *)
(* (55 in all); Beam 18 Red, 10 Green, 7 Yellow and 4 of each beam colour; *)
(* Blue none.                                                              *)
(***************************************************************************)
ListCount(doors_mode, t) ==
    CASE doors_mode = "Blue" -> 0
      [] doors_mode = "Ammo" ->
            (CASE t = "Red" -> 30 [] t = "Green" -> 15 [] t = "Yellow" -> 10 [] OTHER -> 0)
      [] doors_mode = "Beam" ->
            (CASE t = "Red" -> 18 [] t = "Green" -> 10 [] t = "Yellow" -> 7 [] OTHER -> 4)

AllDoorTypes == {"Red", "Green", "Yellow"} \cup BeamTypes

C10_ExactCounts ==
    d_pc = "done" =>
        /\ d_cfg.doors_mode = "Ammo" => Len(d_locked) = 55
        /\ \A t \in AllDoorTypes :
              CountType(LockedTypes, t) = ListCount(d_cfg.doors_mode, t)

(***************************************************************************)
(* C10 (amended): every entry of the mode's lock-count list yields one     *)
(* locked door of its type unless its sampled connection is skipped (a     *)
(* tile of it, or for a beam lock a room of it, already holds a lock): the *)
(* number of locked doors of each type is the list's count of that type    *)
(* less the skipped entries of that type.  So Ammo mode returns at most 55 *)
(* locked doors, at most 30 Red, 15 Green and 10 Yellow (Beam: at most 18, *)
(* 10, 7 and 4 of each beam colour; Blue: none), and exactly those counts  *)
(* when no sampled connection is skipped.                                  *)
(***************************************************************************)
C10_CountsLessSkips ==
    d_pc = "done" =>
        /\ \A t \in AllDoorTypes :
              CountType(LockedTypes, t) + CountType(d_skipped, t)
                  = ListCount(d_cfg.doors_mode, t)
        /\ d_cfg.doors_mode = "Ammo" => Len(d_locked) + Len(d_skipped) = 55
        /\ d_cfg.doors_mode = "Blue" => d_locked = <<>>

\* a finished Ammo-mode run that skipped a sampled connection
C10_Witness ==
    /\ d_pc = "done"
    /\ d_cfg.doors_mode = "Ammo"
    /\ Len(d_skipped) > 0
    /\ Len(d_locked) < 55

(***************************************************************************)
(* Randomizer::randomize.                                                  *)
(*                                                                         *)
(* The game data and the logic traversal are not part of this crate's      *)
(* sources.  Here a game is a record w: item locations 1..w.num_locs, the  *)
(* flags w.flag_ids, the locked doors, the save, start and hub locations,  *)
(* and for each of them what the logic asks for.  A requirement is a set   *)
(* of keys, each the name of an item, of a flag, of a locked door or of a  *)
(* hub location; the key "never" is held by nobody.  traverse gives a      *)
(* vertex a finite forward cost when the forward requirement is held, and  *)
(* get_bireachable_idxs finds a round trip when also the return            *)
(* requirement is held and the "lose" set (if any) is not: holding all of  *)
(* a lose set takes a round trip away again, as the cost heuristic of the  *)
(* traversal sometimes does (see the comments in update_reachability).     *)
(***************************************************************************)
NoItem == "None"

DoorNames == << "door1", "door2" >>

MotherBrain == "f_DefeatedMotherBrain"
Phantoon == "f_DefeatedPhantoon"

\* what a RandomizationState holds for the traversal: global_state and the hub
Have(st) ==
    st.global_state.items \cup st.global_state.flags
        \cup { DoorNames[i] : i \in st.global_state.doors_unlocked }
        \cup { st.hub_location }

\* forward.cost[v].iter().any(|&x| f32::is_finite(x))
ForwardFinite(fwd, held) == fwd \subseteq held

\* get_bireachable_idxs(global, v, forward, reverse).is_some()
GetBireachableIdxs(fwd, ret, lose, held) ==
    /\ fwd \subseteq held
    /\ ret \subseteq held
    /\ ~(lose # {} /\ lose \subseteq held)

\* GlobalState::collect
Collect(global, item) == [global EXCEPT !.items = @ \cup {item}]

\* collect called for each of the items in turn
CollectAll(global, items) ==
    [global EXCEPT !.items = @ \cup { items[k] : k \in 1..Len(items) }]

\* for &(item, cnt) in starting_items { for _ in 0..cnt { global.collect(item) } }
RECURSIVE CollectStarting(_, _)
CollectStarting(global, starting) ==
    IF starting = <<>> THEN global
    ELSE CollectStarting(
            IF Head(starting)[2] > 0 THEN Collect(global, Head(starting)[1]) ELSE global,
            Tail(starting))

\* get_initial_flag_vec
GetInitialFlagVec(difficulty) ==
    {"f_TourianOpen"}
        \cup (IF difficulty.all_items_spawn THEN {"f_AllItemsSpawn"} ELSE {})
        \cup (IF difficulty.acid_chozo THEN {"f_AcidChozoWithoutSpaceJump"} ELSE {})

\* get_initial_global_state
GetInitialGlobalState(difficulty) ==
    CollectStarting([items |-> {},
                     flags |-> GetInitialFlagVec(difficulty),
                     doors_unlocked |-> {}],
                    difficulty.starting_items)

\* update_reachability: the item markers are cleared except reachable, which
\* stays once set; the flag, door and save markers are computed afresh
UpdateReachability(w, st) ==
    LET held == Have(st)
    IN  [st EXCEPT
            !.debug_data = TRUE,
            !.item_location_state =
                [i \in 1..w.num_locs |->
                    [st.item_location_state[i] EXCEPT
                        !.reachable = @ \/ ForwardFinite(w.loc_fwd[i], held),
                        !.bireachable =
                            GetBireachableIdxs(w.loc_fwd[i], w.loc_ret[i],
                                               w.loc_lose[i], held)]],
            !.flag_location_state =
                [i \in 1..Len(w.flag_ids) |->
                    [reachable |-> ForwardFinite(w.flag_fwd[i], held),
                     bireachable |->
                        GetBireachableIdxs(w.flag_fwd[i], w.flag_ret[i], {}, held)]],
            !.door_state =
                [i \in 1..Len(w.door_req) |->
                    [bireachable |->
                        GetBireachableIdxs(w.door_req[i], {}, {}, held)]],
            !.save_location_state =
                [i \in 1..Len(w.save_req) |->
                    [bireachable |->
                        GetBireachableIdxs(w.save_req[i], {}, {}, held)]]]

\* is_game_beatable
IsGameBeatable(w, st) ==
    \E i \in 1..Len(w.flag_ids) :
        w.flag_ids[i] = MotherBrain /\ st.flag_location_state[i].reachable

(***************************************************************************)
(* Item precedence.                                                        *)
(***************************************************************************)
\* a remove_some_duplicates that removes nothing
RemoveNoDuplicates(x_slice, dup_set) == x_slice

\* remove_some_duplicates: of the items of dup_set only the first occurrence
\* is kept
RemoveSomeDuplicates(x_slice, dup_set) ==
    LET keep == { i \in 1..Len(x_slice) :
                    x_slice[i] \in dup_set =>
                        \A j \in 1..(i - 1) : x_slice[j] # x_slice[i] }
        nth(k) == CHOOSE i \in keep : Cardinality({ j \in keep : j <= i }) = k
    IN  [k \in 1..Cardinality(keep) |-> x_slice[nth(k)]]

Reverse(seq) == [k \in 1..Len(seq) |-> seq[Len(seq) + 1 - k]]

SeqRange(seq) == { seq[k] : k \in 1..Len(seq) }

\* iter().position(|&x| x == item): 0 stands for None
Position(seq, item) ==
    IF item \in SeqRange(seq)
    THEN CHOOSE k \in 1..Len(seq) : seq[k] = item /\ \A j \in 1..(k - 1) : seq[j] # item
    ELSE 0

\* the Moderate list before the shuffle: Early and Late items twice
ModerateItems(item_priorities) ==
    LET twice(g) == [k \in 1..(2 * Len(g)) |-> g[(k + 1) \div 2]]
    IN  twice(item_priorities[1]) \o item_priorities[2] \o twice(item_priorities[3])

\* the Heavy list: every group shuffled by itself, in group order
RECURSIVE HeavyItems(_, _, _)
HeavyItems(item_priorities, g, s) ==
    IF g > Len(item_priorities) THEN [seq |-> <<>>, rng |-> s]
    ELSE LET sh   == Shuffle(item_priorities[g], s)
             rest == HeavyItems(item_priorities, g + 1, sh.rng)
         IN  [seq |-> sh.seq \o rest.seq, rng |-> rest.rng]

\* get_item_precedence; Moderate asserts that there are three groups
GetItemPrecedence(difficulty, s) ==
    LET slow == difficulty.progression_rate = "Slow"
        head == IF slow THEN << "Nothing", "Missile" >> ELSE <<>>
        tail == IF slow THEN <<>> ELSE << "Missile", "Nothing" >>
    IN  IF difficulty.item_priority_strength = "Moderate"
        THEN IF Len(difficulty.item_priorities) # 3
             THEN [status |-> "panic", seq |-> <<>>, rng |-> s]
             ELSE LET sh  == Shuffle(ModerateItems(difficulty.item_priorities), s)
                      r1  == RemoveSomeDuplicates(sh.seq,
                                 SeqRange(difficulty.item_priorities[1]))
                      r2  == Reverse(RemoveSomeDuplicates(Reverse(r1),
                                 SeqRange(difficulty.item_priorities[3])))
                  IN  [status |-> "ok", seq |-> head \o r2 \o tail, rng |-> sh.rng]
        ELSE LET hv == HeavyItems(difficulty.item_priorities, 1, s)
             IN  [status |-> "ok", seq |-> head \o hv.seq \o tail, rng |-> hv.rng]

\* rng.gen_bool(0.5): one draw
GenBool(s) == (RngNext(s) \div 8) % 2 = 0

\* rerandomize_tank_precedence; position(..).unwrap() panics when a tank is
\* not in the list
RerandomizeTankPrecedence(item_precedence, s) ==
    IF GenBool(s) THEN [status |-> "ok", seq |-> item_precedence, rng |-> RngNext(s)]
    ELSE LET etank_idx   == Position(item_precedence, "ETank")
             reserve_idx == Position(item_precedence, "ReserveTank")
         IN  IF etank_idx = 0 \/ reserve_idx = 0
             THEN [status |-> "panic", seq |-> item_precedence, rng |-> RngNext(s)]
             ELSE [status |-> "ok",
                   seq |-> [item_precedence EXCEPT ![etank_idx] = "ReserveTank",
                                                   ![reserve_idx] = "ETank"],
                   rng |-> RngNext(s)]

\* apply_spazer_plasma_priority
ApplySpazerPlasmaPriority(item_precedence) ==
    LET spazer_idx == Position(item_precedence, "Spazer")
        plasma_idx == Position(item_precedence, "Plasma")
    IN  IF spazer_idx = 0 \/ plasma_idx = 0 THEN item_precedence
        ELSE IF plasma_idx < spazer_idx
             THEN [item_precedence EXCEPT ![plasma_idx] = "Spazer",
                                          ![spazer_idx] = "Plasma"]
             ELSE item_precedence

(***************************************************************************)
(* The selection of the items of a step.                                   *)
(***************************************************************************)
KEY_ITEM_FINISH_THRESHOLD == 20

one_way_reachable_limit == 20

\* what a saturating cast to usize yields for infinity; it stands for
\* usize::MAX and is only ever compared with counts of items and locations
UsizeMax == 2147483647

Min(a, b) == IF a < b THEN a ELSE b

Max(a, b) == IF a > b THEN a ELSE b

RECURSIVE Pow2(_)
Pow2(n) == IF n = 0 THEN 1 ELSE 2 * Pow2(n - 1)

\* n / d rounded to an integer as f32 arithmetic rounds a significand: to the
\* nearest, ties to even
RoundTiesEven(n, d) ==
    LET q == n \div d
        r == n % d
    IN  IF 2 * r < d THEN q ELSE IF 2 * r > d THEN q + 1 ELSE q + (q % 2)

\* f32::round((a as f32) / (den as f32) * (b as f32)) as usize for naturals
\* below 128: the quotient is rounded to 24 significant bits (m / 2^e), the
\* product again (m2 * 2^sh / 2^e), and f32::round rounds halves away from
\* zero; NaN (0 / 0, or infinity * 0) casts to 0, infinity saturates
RoundRatio(a, den, b) ==
    IF den = 0 THEN (IF a = 0 \/ b = 0 THEN 0 ELSE UsizeMax)
    ELSE IF a = 0 \/ b = 0 THEN 0
    ELSE LET e  == CHOOSE x \in 0..30 :
                      Pow2(23) * den <= a * Pow2(x) /\ a * Pow2(x) < Pow2(24) * den
             m  == RoundTiesEven(a * Pow2(e), den)
             sh == CHOOSE x \in 0..8 : m * b < Pow2(24 + x)
             m2 == RoundTiesEven(m * b, Pow2(sh))
         IN  IF e - sh >= 26 THEN 0
             ELSE (2 * m2 + Pow2(e - sh)) \div (2 * Pow2(e - sh))

\* a filter that leaves out the items without a copy in the pool
FilteredItemPrecedenceInPool(init, st) ==
    SelectSeq(st.item_precedence,
              LAMBDA item : st.items_remaining[item] = init[item] /\ init[item] > 0)

\* the items of item_precedence of which no copy has been placed
FilteredItemPrecedence(init, st) ==
    SelectSeq(st.item_precedence,
              LAMBDA item : st.items_remaining[item] = init[item])

\* determine_item_split
DetermineItemSplit(difficulty, init, st, num_bireachable, num_oneway_reachable) ==
    LET num_items_to_place == num_bireachable + num_oneway_reachable
        num_key_items_remaining == Len(FilteredItemPrecedence(init, st))
        num_items_remaining == SumVec(st.items_remaining)
        by_rate ==
            CASE difficulty.progression_rate = "Slow" -> 1
              [] difficulty.progression_rate = "Uniform" ->
                    Max(1, RoundRatio(num_key_items_remaining, num_items_remaining,
                                      num_items_to_place))
              [] difficulty.progression_rate = "Fast" ->
                    Max(1, RoundRatio(2 * num_key_items_remaining, num_items_remaining,
                                      num_items_to_place))
        at_end ==
            IF /\ ~difficulty.stop_item_placement_early
               /\ num_items_remaining < num_items_to_place + KEY_ITEM_FINISH_THRESHOLD
            THEN num_key_items_remaining
            ELSE by_rate
        num_key_items_to_place ==
            Min(at_end, Min(num_bireachable, num_key_items_remaining))
    IN  << num_key_items_to_place, num_items_to_place - num_key_items_to_place >>

\* for each item type in order, cnt[type] copies of it
RECURSIVE Copies(_, _)
Copies(types, cnt) ==
    IF types = <<>> THEN <<>>
    ELSE Repeat(Head(types), cnt[Head(types)]) \o Copies(Tail(types), cnt)

ExpansionItemSet == {"ETank", "ReserveTank", "Super", "PowerBomb"}

\* buckets that leave the items of the last bucket out of the filler list
FillerBucketNoExtraDelay(difficulty, init, st, item) ==
    IF /\ item \in difficulty.early_filler_items
       /\ st.items_remaining[item] = init[item]
    THEN "prioritize"
    ELSE IF \/ item \in difficulty.filler_items
            \/ /\ item \in difficulty.semi_filler_items
               /\ st.items_remaining[item] < init[item]
         THEN "mix"
         ELSE IF item \in ExpansionItemSet THEN "delay" ELSE "none"

\* the bucket of an item type in select_filler_items
FillerBucket(difficulty, init, st, item) ==
    IF /\ item \in difficulty.early_filler_items
       /\ st.items_remaining[item] = init[item]
    THEN "prioritize"
    ELSE IF \/ item \in difficulty.filler_items
            \/ /\ item \in difficulty.semi_filler_items
               /\ st.items_remaining[item] < init[item]
         THEN "mix"
         ELSE IF item \in ExpansionItemSet THEN "delay" ELSE "extra_delay"

\* select_filler_items; the slice [0..n] panics when the list is shorter
SelectFillerItems(difficulty, init, st, num_filler_items_to_select, s) ==
    LET rem == st.items_remaining
        types == SelectSeq(st.item_precedence,
                     LAMBDA item : ~(item = "Missile" \/ item = "Nothing" \/ rem[item] = 0))
        bucket(item) == FillerBucket(difficulty, init, st, item)
        item_types_to_prioritize ==
            SelectSeq(types, LAMBDA item : bucket(item) = "prioritize")
        item_types_to_mix ==
            << "Missile", "Nothing" >>
                \o SelectSeq(types, LAMBDA item : bucket(item) \in {"prioritize", "mix"})
        item_types_to_delay == SelectSeq(types, LAMBDA item : bucket(item) = "delay")
        item_types_to_extra_delay ==
            SelectSeq(types, LAMBDA item : bucket(item) = "extra_delay")
        items_to_mix ==
            Copies(item_types_to_mix,
                   [item \in Items |->
                        IF item \in SeqRange(item_types_to_prioritize)
                        THEN rem[item] - 1 ELSE rem[item]])
        items_to_delay == Copies(item_types_to_delay, rem)
        extra == Copies(item_types_to_extra_delay, rem)
        items_to_extra_delay ==
            IF difficulty.stop_item_placement_early
            THEN Repeat("Nothing", Len(extra))
            ELSE extra
        mixed == Shuffle(items_to_mix, s)
        joined == item_types_to_prioritize \o mixed.seq \o items_to_delay
                      \o items_to_extra_delay
        items_to_place ==
            IF difficulty.spazer_before_plasma
            THEN ApplySpazerPlasmaPriority(joined) ELSE joined
    IN  IF num_filler_items_to_select > Len(items_to_place)
        THEN [status |-> "panic", items |-> <<>>, rng |-> mixed.rng]
        ELSE [status |-> "ok",
              items |-> SubSeq(items_to_place, 1, num_filler_items_to_select),
              rng |-> mixed.rng]

\* the candidate list of select_key_items and the number of different items
KeyCandidates(difficulty, init, st) ==
    LET rem == st.items_remaining
        types == SelectSeq(st.item_precedence,
                     LAMBDA item :
                        \/ rem[item] > 0
                        \/ (difficulty.stop_item_placement_early /\ item = "Nothing"))
        slow == difficulty.progression_rate = "Slow"
        unplaced_items ==
            SelectSeq(types, LAMBDA item : slow \/ rem[item] = init[item])
        placed_items ==
            SelectSeq(types, LAMBDA item : ~slow /\ rem[item] # init[item])
        additional_items ==
            Copies(types, [item \in Items |->
                              IF rem[item] >= 2 THEN rem[item] - 1 ELSE 0])
    IN  [remaining_items |-> unplaced_items \o placed_items \o additional_items,
         cnt_different_items_remaining |-> Len(unplaced_items) + Len(placed_items)]

\* select_key_items: Some(items), None, or a panic of the slice or the index
SelectKeyItems(difficulty, init, st, num_key_items_to_select, attempt_num) ==
    LET c == KeyCandidates(difficulty, init, st)
        k == num_key_items_to_select
    IN  IF k >= 1
        THEN IF attempt_num > 0 /\ k - 1 + attempt_num >= c.cnt_different_items_remaining
             THEN [tag |-> "None", items |-> <<>>]
             ELSE IF k + attempt_num > Len(c.remaining_items)
                  THEN [tag |-> "Panic", items |-> <<>>]
                  ELSE [tag |-> "Some",
                        items |-> SubSeq(c.remaining_items, 1, k - 1)
                                    \o << c.remaining_items[k + attempt_num] >>]
        ELSE IF attempt_num > 0
             THEN [tag |-> "None", items |-> <<>>]
             ELSE [tag |-> "Some", items |-> <<>>]

\* a selection that leaves items_remaining as it is
DecrementNone(rem, items) == rem

\* for &item in items { if rem[item] > 0 { rem[item] -= 1 } }
DecrementAll(rem, items) ==
    [i \in DOMAIN rem |->
        LET n == Cardinality({ k \in 1..Len(items) : items[k] = i })
        IN  IF n < rem[i] THEN rem[i] - n ELSE 0]

\* iter().take(n)
Take(seq, n) == SubSeq(seq, 1, Min(n, Len(seq)))

\* the members of a set of numbers in increasing order
Ascending(S) ==
    LET nth(k) == CHOOSE i \in S : Cardinality({ j \in S : j <= i }) = k
    IN  [k \in 1..Cardinality(S) |-> nth(k)]

\* item_location_state.iter().filter(|x| x.bireachable).count()
NumBireachable(st) ==
    Cardinality({ i \in 1..Len(st.item_location_state) : st.item_location_state[i].bireachable })

\* a count of the reachable locations that counts every location
NumReachableAll(st) == Len(st.item_location_state)

\* item_location_state.iter().filter(|x| x.reachable).count()
NumReachable(st) ==
    Cardinality({ i \in 1..Len(st.item_location_state) : st.item_location_state[i].reachable })

\* provides_progression: collects into new_state, recomputes its reachability
\* and judges it against old_state
ProvidesProgression(w, old_state, new_state, key_items, filler_items, placed_uncollected_bireachable_items, num_unplaced_bireachable) ==
    LET collected == placed_uncollected_bireachable_items
                        \o Take(key_items \o filler_items, num_unplaced_bireachable)
        upd == UpdateReachability(w,
                   [new_state EXCEPT !.global_state = CollectAll(@, collected),
                                     !.debug_data = TRUE])
        num_bireachable == NumBireachable(upd)
        num_reachable == NumReachable(upd)
        num_one_way_reachable == num_reachable - num_bireachable
        all_items_bireachable == num_bireachable = Len(upd.item_location_state)
        gives_expansion ==
            IF all_items_bireachable THEN TRUE
            ELSE \E i \in 1..Len(upd.item_location_state) :
                    /\ upd.item_location_state[i].bireachable
                    /\ ~old_state.item_location_state[i].reachable
    IN  [ok |-> \/ (num_one_way_reachable < one_way_reachable_limit /\ gives_expansion)
                \/ IsGameBeatable(w, upd),
         state |-> upd,
         collected |-> collected]

\* a new_state_filler that starts from an empty global state
NewStateFillerFreshGlobal(state, selected_filler_items) ==
    [state EXCEPT !.items_remaining = DecrementAll(@, selected_filler_items),
                  !.global_state = [items |-> {}, flags |-> {}, doors_unlocked |-> {}],
                  !.debug_data = FALSE,
                  !.previous_debug_data = FALSE,
                  !.key_visited_vertices = {}]

\* new_state_filler of multi_attempt_select_items
NewStateFiller(state, selected_filler_items) ==
    [state EXCEPT !.items_remaining = DecrementAll(@, selected_filler_items),
                  !.debug_data = FALSE,
                  !.previous_debug_data = FALSE,
                  !.key_visited_vertices = {}]

\* new_state of one pass of the loop of multi_attempt_select_items, before
\* provides_progression works on it
AttemptState(new_state_filler, selected_key_items) ==
    [new_state_filler EXCEPT !.items_remaining = DecrementAll(@, selected_key_items)]

(***************************************************************************)
(* Placement.                                                              *)
(***************************************************************************)
\* the forward traversal of find_hard_location at a weaker tier: a location
\* of w.tier_hard[tier] is out of reach there, unless the traversal starts
\* from the vertices visited on the way to an earlier hard location and one
\* of them is near the location
TierReachable(w, tier, st, loc, with_init) ==
    /\ ForwardFinite(w.loc_fwd[loc], Have(st))
    /\ \/ loc \notin w.tier_hard[tier]
       \/ (with_init /\ w.near[loc] \cap st.key_visited_vertices # {})

\* a find_hard_location that goes through the locations first and the tiers
\* second: the first location out of reach at any tier
FindHardLocationByLocation(w, num_tiers, st, bireachable_locations, with_init) ==
    LET hard(i) == { tier \in 1..(num_tiers - 1) :
                       ~TierReachable(w, tier, st, bireachable_locations[i], with_init) }
        idxs == { i \in 1..Len(bireachable_locations) : hard(i) # {} }
    IN  IF idxs = {} THEN << 0, num_tiers - 1 >>
        ELSE LET i == CHOOSE j \in idxs : \A h \in idxs : j <= h
                 tier == CHOOSE t \in hard(i) : \A u \in hard(i) : t <= u
             IN  << i - 1, tier - 1 >>

\* find_hard_location: a 0-based index into bireachable_locations and a tier
FindHardLocation(w, num_tiers, st, bireachable_locations, with_init) ==
    LET unreachable(tier) ==
            { i \in 1..Len(bireachable_locations) :
                ~TierReachable(w, tier, st, bireachable_locations[i], with_init) }
        tiers == { tier \in 1..(num_tiers - 1) : unreachable(tier) # {} }
    IN  IF tiers = {} THEN << 0, num_tiers - 1 >>
        ELSE LET tier == CHOOSE t \in tiers : \A u \in tiers : t <= u
                 i == CHOOSE j \in unreachable(tier) :
                        \A h \in unreachable(tier) : j <= h
             IN  << i - 1, tier - 1 >>

\* the forced-mode loop of place_items, from key item i (1-based) on
RECURSIVE HardPlacement(_, _, _, _, _, _, _)
HardPlacement(w, num_tiers, state, new_state, locs, num_key, i) ==
    IF i > num_key THEN [status |-> "ok", locs |-> locs, state |-> new_state]
    ELSE IF i > Len(locs) THEN [status |-> "panic", locs |-> locs, state |-> new_state]
    ELSE
    LET found == FindHardLocation(w, num_tiers,
                     IF num_key > 1 THEN new_state ELSE state,
                     SubSeq(locs, i, Len(locs)), state.previous_debug_data)
        hard_loc == locs[i + found[1]]
    IN  HardPlacement(w, num_tiers, state,
            [new_state EXCEPT
                !.item_location_state[hard_loc].difficulty_tier = found[2],
                !.key_visited_vertices = @ \cup {hard_loc}],
            Swap(locs, i, i + found[1]), num_key, i + 1)

AllLocationsOtherFirst(new_bireachable_locations, other_locations) ==
    other_locations \o new_bireachable_locations

\* all_locations: the bireachable locations first
AllLocations(new_bireachable_locations, other_locations) ==
    new_bireachable_locations \o other_locations

\* place_items
PlaceItems(w, cfg, state, new_state, bireachable_locations, other_locations, key_items_to_place, other_items_to_place) ==
    LET difficulty == cfg.difficulty
        num_items_remaining == SumVec(state.items_remaining)
        num_items_to_place == Len(key_items_to_place) + Len(other_items_to_place)
        skip_hard_placement ==
            /\ ~difficulty.stop_item_placement_early
            /\ num_items_remaining < num_items_to_place + KEY_ITEM_FINISH_THRESHOLD
        hard == IF cfg.num_tiers > 1 /\ ~skip_hard_placement
                THEN HardPlacement(w, cfg.num_tiers, state, new_state,
                                   bireachable_locations, Len(key_items_to_place), 1)
                ELSE [status |-> "ok", locs |-> bireachable_locations,
                      state |-> new_state]
        all_locations == AllLocations(hard.locs, other_locations)
        all_items_to_place == key_items_to_place \o other_items_to_place
    IN  IF hard.status = "panic" \/ Len(all_locations) # Len(all_items_to_place)
        THEN [status |-> "panic", state |-> new_state, all_locations |-> all_locations]
        ELSE [status |-> "ok",
              state |-> [hard.state EXCEPT
                  !.item_location_state =
                      [loc \in 1..Len(@) |->
                          IF loc \in SeqRange(all_locations)
                          THEN [@[loc] EXCEPT !.placed_item =
                                   all_items_to_place[Position(all_locations, loc)]]
                          ELSE @[loc]]],
              all_locations |-> all_locations]

\* finish, stop_item_placement_early: a location whose item is taken back
\* a finish that overwrites nothing
FinishOverwritesNothing(placed_item, bireachable) == FALSE

\* a finish that takes back no placed item
FinishOverwritesEmpty(placed_item, bireachable) == placed_item = NoItem

\* lines 3299-3300: the locations that finish sets to Nothing under stop-early
FinishOverwrites(placed_item, bireachable) ==
    placed_item = NoItem \/ ~bireachable

\* remaining_items[k - 1] of finish: items_remaining[item] copies of every
\* item, in the order of the items
RemainingItem(rem, k) ==
    ItemNames[CHOOSE j \in 1..Len(ItemNames) : SumUpTo(rem, j - 1) < k /\ k <= SumUpTo(rem, j)]

\* finish
Finish(difficulty, state) ==
    LET locs == state.item_location_state
        num_empty == Cardinality({ i \in 1..Len(locs) : locs[i].placed_item = NoItem })
        idx(i) == Cardinality({ j \in 1..i : locs[j].placed_item = NoItem })
    IN  IF difficulty.stop_item_placement_early
        THEN [status |-> "ok",
              state |-> [state EXCEPT !.item_location_state =
                  [i \in 1..Len(locs) |->
                      IF FinishOverwrites(locs[i].placed_item, locs[i].bireachable)
                      THEN [locs[i] EXCEPT !.placed_item = "Nothing"]
                      ELSE locs[i]]]]
        ELSE IF num_empty # SumVec(state.items_remaining)
             THEN [status |-> "panic", state |-> state]
             ELSE [status |-> "ok",
                   state |-> [state EXCEPT !.item_location_state =
                       [i \in 1..Len(locs) |->
                           IF locs[i].placed_item = NoItem
                           THEN [locs[i] EXCEPT !.placed_item =
                                    RemainingItem(state.items_remaining, idx(i))]
                           ELSE locs[i]]]]

(***************************************************************************)
(* The step.                                                               *)
(***************************************************************************)
\* a pass that sets every flag on forward reachability alone
ClosurePassOneWay(w, st) ==
    LET new_flags ==
            { i \in 1..Len(w.flag_ids) :
                /\ w.flag_ids[i] \notin st.global_state.flags
                /\ st.flag_location_state[i].reachable }
        new_doors ==
            { i \in 1..Len(w.door_req) :
                /\ i \notin st.global_state.doors_unlocked
                /\ st.door_state[i].bireachable }
    IN  [flags |-> [k \in 1..Cardinality(new_flags) |-> w.flag_ids[Ascending(new_flags)[k]]],
         doors |-> Ascending(new_doors)]

\* a pass that sets flags and leaves the doors locked
ClosurePassFlagsOnly(w, st) ==
    LET new_flags ==
            { i \in 1..Len(w.flag_ids) :
                /\ w.flag_ids[i] \notin st.global_state.flags
                /\ \/ (st.flag_location_state[i].reachable /\ w.flag_ids[i] = MotherBrain)
                   \/ st.flag_location_state[i].bireachable }
    IN  [flags |-> [k \in 1..Cardinality(new_flags) |-> w.flag_ids[Ascending(new_flags)[k]]],
         doors |-> <<>>]

\* one pass of the closure loop of step: the flags and doors it sets
ClosurePass(w, st) ==
    LET new_flags ==
            { i \in 1..Len(w.flag_ids) :
                /\ w.flag_ids[i] \notin st.global_state.flags
                /\ \/ (st.flag_location_state[i].reachable /\ w.flag_ids[i] = MotherBrain)
                   \/ st.flag_location_state[i].bireachable }
        new_doors ==
            { i \in 1..Len(w.door_req) :
                /\ i \notin st.global_state.doors_unlocked
                /\ st.door_state[i].bireachable }
    IN  [flags |-> [k \in 1..Cardinality(new_flags) |-> w.flag_ids[Ascending(new_flags)[k]]],
         doors |-> Ascending(new_doors)]

\* the closure loop of step: passes until one sets nothing, update_reachability
\* after every pass that set something
RECURSIVE FlagDoorClosure(_, _, _, _, _)
FlagDoorClosure(w, st, flags, doors, passes) ==
    LET pass == ClosurePass(w, st)
    IN  IF pass.flags = <<>> /\ pass.doors = <<>>
        THEN [state |-> st, flags |-> flags, doors |-> doors, passes |-> passes + 1]
        ELSE FlagDoorClosure(w,
                UpdateReachability(w,
                    [st EXCEPT !.global_state.flags = @ \cup SeqRange(pass.flags),
                               !.global_state.doors_unlocked = @ \cup SeqRange(pass.doors)]),
                flags \o pass.flags, doors \o pass.doors, passes + 1)

\* a summary that lists the newly collected Nothing items too
GetSpoilerSummaryWithNothing(state, new_state, flags, doors) ==
    LET locs == Ascending({ i \in 1..Len(state.item_location_state) :
                    /\ new_state.item_location_state[i].placed_item # NoItem
                    /\ ~state.item_location_state[i].collected
                    /\ new_state.item_location_state[i].collected })
    IN  [step |-> state.step_num,
         items |-> [k \in 1..Len(locs) |->
                      << locs[k], new_state.item_location_state[locs[k]].placed_item >>],
         flags |-> flags,
         doors |-> doors]

\* get_spoiler_summary: the items are the non-Nothing items of the locations
\* that new_state has collected and state has not
GetSpoilerSummary(state, new_state, flags, doors) ==
    LET locs == Ascending({ i \in 1..Len(state.item_location_state) :
                    /\ new_state.item_location_state[i].placed_item \notin {NoItem, "Nothing"}
                    /\ ~state.item_location_state[i].collected
                    /\ new_state.item_location_state[i].collected })
    IN  [step |-> state.step_num,
         items |-> [k \in 1..Len(locs) |->
                      << locs[k], new_state.item_location_state[locs[k]].placed_item >>],
         flags |-> flags,
         doors |-> doors]

\* item_location_state[loc].collected = true for every loc of the list
MarkCollected(st, locs) ==
    [st EXCEPT !.item_location_state =
        [i \in 1..Len(@) |->
            IF i \in SeqRange(locs) THEN [@[i] EXCEPT !.collected = TRUE] ELSE @[i]]]

\* the four lists of step, in the order of the item locations
PlacedUncollectedBireachableLoc(st) ==
    Ascending({ i \in 1..Len(st.item_location_state) :
        LET x == st.item_location_state[i]
        IN  x.placed_item # NoItem /\ ~x.collected /\ x.bireachable })

\* every unplaced location that is reachable, with a way back or without
UnplacedReachable(st) ==
    Ascending({ i \in 1..Len(st.item_location_state) :
        LET x == st.item_location_state[i]
        IN  x.placed_item = NoItem /\ (x.bireachable \/ x.reachable) })

UnplacedBireachable(st) ==
    Ascending({ i \in 1..Len(st.item_location_state) :
        LET x == st.item_location_state[i]
        IN  x.placed_item = NoItem /\ x.bireachable })

UnplacedOnewayReachable(st) ==
    Ascending({ i \in 1..Len(st.item_location_state) :
        LET x == st.item_location_state[i]
        IN  x.placed_item = NoItem /\ ~x.bireachable /\ x.reachable })

(***************************************************************************)
(* Start and hub location.                                                 *)
(***************************************************************************)
num_attempts_start_location == 10

\* determine_start_location in the modes other than Ship: the first hub, in
\* table order, of the first sampled start location that has one
\* hubs that the forward traversal from the start location reaches
QualifyingHubsForwardOnly(w, start_loc) ==
    { h \in 1..Len(w.hub_locations) : w.hub_locations[h].name \in start_loc.hub_forward }

\* lines 4040-4063: the hubs that pass the three tests for a start location
QualifyingHubs(w, start_loc) ==
    { h \in 1..Len(w.hub_locations) :
        /\ w.hub_locations[h].name \in start_loc.hub_forward
        /\ w.hub_locations[h].name \in start_loc.hub_bireachable
        /\ w.hub_locations[h].requires_ok }

RECURSIVE SampleStartLocation(_, _, _, _)
SampleStartLocation(w, i, num_attempts, s) ==
    IF i >= num_attempts THEN [status |-> "failed", start |-> "", hub |-> "", rng |-> s]
    ELSE
    LET start_loc == w.start_locations[GenRange(s, 0, Len(w.start_locations)) + 1]
        hubs == QualifyingHubs(w, start_loc)
    IN  IF ~start_loc.requires_ok \/ hubs = {}
        THEN SampleStartLocation(w, i + 1, num_attempts, RngNext(s))
        ELSE [status |-> "ok", start |-> start_loc.name,
              hub |-> w.hub_locations[CHOOSE h \in hubs : \A g \in hubs : h <= g].name,
              rng |-> RngNext(s)]

DetermineStartLocation(w, difficulty, num_attempts, s) ==
    IF difficulty.start_location_mode = "Ship"
    THEN [status |-> "ok", start |-> "Ship", hub |-> "Ship", rng |-> s]
    ELSE SampleStartLocation(w, 0, num_attempts, s)

(***************************************************************************)
(* The result.                                                             *)
(***************************************************************************)
Alphabet ==
    << "2", "5", "6", "7", "8", "9", "B", "C", "D", "F", "G", "H", "J", "K", "L", "M",
       "N", "P", "Q", "R", "S", "T", "V", "W", "X", "Y", "Z", "b", "c", "d", "f", "g",
       "h", "j", "k", "m", "n", "p", "q", "r", "s", "t", "v", "w", "x", "y", "z" >>

num_chars == 11

RECURSIVE SeedNameFrom(_, _)
SeedNameFrom(s, n) ==
    IF n = 0 THEN <<>>
    ELSE << Alphabet[GenRange(s, 0, Len(Alphabet)) + 1] >> \o SeedNameFrom(RngNext(s), n - 1)

\* get_seed_name: a generator of its own, seeded from the seed and from the
\* clock reading t
GetSeedName(seed, t) == SeedNameFrom(RngFromSeedAndTime(seed, t), num_chars)

\* the Randomization that get_randomization builds (the fields that are
\* copies of the map and of the game data are left out)
Randomization(cfg, state, summaries, seed_name) ==
    [difficulty |-> cfg.difficulty,
     locked_door_data |-> cfg.locked_door_data,
     item_placement |-> [i \in 1..Len(state.item_location_state) |->
                            state.item_location_state[i].placed_item],
     spoiler_log |-> [item_priority |-> state.item_precedence,
                      summary |-> summaries],
     seed |-> cfg.seed,
     display_seed |-> cfg.display_seed,
     seed_name |-> seed_name,
     start_location |-> state.start_location,
     starting_items |-> cfg.difficulty.starting_items]

DummyStartingItems ==
    << <<"ETank", 14>>, <<"Missile", 46>>, <<"Super", 10>>, <<"PowerBomb", 10>>,
       <<"Bombs", 1>>, <<"Charge", 1>>, <<"Ice", 1>>, <<"HiJump", 1>>,
       <<"SpeedBooster", 1>>, <<"Wave", 1>>, <<"Spazer", 1>>, <<"SpringBall", 1>>,
       <<"Varia", 1>>, <<"Gravity", 1>>, <<"XRayScope", 1>>, <<"Plasma", 1>>,
       <<"Grapple", 1>>, <<"SpaceJump", 1>>, <<"ScrewAttack", 1>>, <<"Morph", 1>>,
       <<"ReserveTank", 4>> >>

\* the Randomization of dummy_randomize
DummyRandomization(cfg, seed_name) ==
    [difficulty |-> cfg.difficulty,
     locked_door_data |-> cfg.locked_door_data,
     item_placement |-> Repeat("Nothing", 100),
     spoiler_log |-> [item_priority |-> <<>>, summary |-> <<>>],
     seed |-> cfg.seed,
     display_seed |-> cfg.display_seed,
     seed_name |-> seed_name,
     start_location |-> "",
     starting_items |-> DummyStartingItems]

(***************************************************************************)
(* The games and the difficulty settings that the model runs.              *)
(*                                                                         *)
(* A game is given by zones: n item locations that share a requirement.    *)
(***************************************************************************)
RECURSIVE SumSizes(_, _)
SumSizes(zones, z) == IF z = 0 THEN 0 ELSE zones[z].n + SumSizes(zones, z - 1)

ZoneOf(zones, i) ==
    CHOOSE z \in 1..Len(zones) : SumSizes(zones, z - 1) < i /\ i <= SumSizes(zones, z)

Zone(n, fwd, ret, lose) == [n |-> n, fwd |-> fwd, ret |-> ret, lose |-> lose]

Flag(id, fwd, ret) == [id |-> id, fwd |-> fwd, ret |-> ret]

StartLoc(name, requires_ok, hub_forward, hub_bireachable) ==
    [name |-> name, requires_ok |-> requires_ok, hub_forward |-> hub_forward,
     hub_bireachable |-> hub_bireachable]

Hub(name, requires_ok) == [name |-> name, requires_ok |-> requires_ok]

Game(zones, flags, door_req, save_req, starts, hubs, tier_hard, near_pairs) ==
    LET num_locs == SumSizes(zones, Len(zones))
    IN  [num_locs |-> num_locs,
         loc_fwd  |-> [i \in 1..num_locs |-> zones[ZoneOf(zones, i)].fwd],
         loc_ret  |-> [i \in 1..num_locs |-> zones[ZoneOf(zones, i)].ret],
         loc_lose |-> [i \in 1..num_locs |-> zones[ZoneOf(zones, i)].lose],
         flag_ids |-> [k \in 1..Len(flags) |-> flags[k].id],
         flag_fwd |-> [k \in 1..Len(flags) |-> flags[k].fwd],
         flag_ret |-> [k \in 1..Len(flags) |-> flags[k].ret],
         door_req |-> door_req,
         save_req |-> save_req,
         start_locations |-> starts,
         hub_locations |-> hubs,
         tier_hard |-> tier_hard,
         near |-> [i \in 1..num_locs |-> { p[2] : p \in { q \in near_pairs : q[1] = i } }]]

StartTable ==
    << StartLoc("Landing Site", FALSE, {"Ship", "Parlor"}, {"Ship", "Parlor"}),
       StartLoc("Big Pink", TRUE, {"Ship", "Parlor"}, {"Parlor"}),
       StartLoc("Aqueduct", TRUE, {"Ship"}, {}) >>

HubTable == << Hub("Ship", TRUE), Hub("Parlor", TRUE) >>

\* a game that can be won: the zones open up with Morph, Super, the tanks
\* and the beams; three locations are out of reach for good
GameOpen ==
    Game(<< Zone(3, {}, {}, {}),
            Zone(2, {}, {"Morph"}, {}),
            Zone(5, {"Morph"}, {}, {}),
            Zone(3, {"Morph"}, {"Super"}, {}),
            Zone(6, {"Super"}, {}, {}),
            Zone(4, {"Super", "door1"}, {}, {}),
            Zone(5, {Phantoon}, {}, {}),
            Zone(6, {"ETank"}, {}, {}),
            Zone(5, {"Spazer"}, {}, {}),
            Zone(5, {"Plasma"}, {}, {}),
            Zone(6, {"ReserveTank", "Morph"}, {}, {}),
            Zone(5, {"Missile"}, {}, {}),
            Zone(3, {"never"}, {}, {}),
            Zone(2, {"Morph", "ETank"}, {"never"}, {}) >>,
         << Flag("f_ZebesAwake", {"Morph"}, {}),
            Flag(Phantoon, {"Super"}, {}),
            Flag(MotherBrain, {"Morph", "Super", Phantoon}, {"never"}) >>,
         << {"Super"}, {"Missile", "Morph"} >>,
         << {}, {"Morph"} >>,
         StartTable, HubTable,
         << {2, 7, 20}, {5, 12} >>,
         { <<7, 2>> })

\* a game in which Phantoon can be reached but not left, no save location
\* has a round trip at the start, and a zone loses its round trip with ETank
GameOneWay ==
    Game(<< Zone(4, {}, {}, {}),
            Zone(6, {}, {"Morph"}, {"ETank"}),
            Zone(22, {"Morph"}, {"never"}, {}),
            Zone(8, {"Super"}, {}, {}),
            Zone(8, {"ETank"}, {}, {}),
            Zone(6, {"Spazer"}, {"Plasma"}, {}),
            Zone(6, {"Plasma", "door1"}, {}, {}) >>,
         << Flag(Phantoon, {"Super"}, {"never"}),
            Flag(MotherBrain, {"Super", "ETank"}, {}) >>,
         << {"ETank"} >>,
         << {"Super"} >>,
         StartTable, HubTable,
         << {1, 2}, {3} >>,
         {})

\* a game that cannot be won: nothing leads to Mother Brain
GameClosed ==
    Game(<< Zone(5, {}, {}, {}),
            Zone(25, {"Morph"}, {}, {}),
            Zone(30, {"Super"}, {}, {}) >>,
         << Flag(Phantoon, {"Super"}, {}),
            Flag(MotherBrain, {"never"}, {}) >>,
         << >>,
         << {} >>,
         << StartLoc("Aqueduct", TRUE, {"Ship"}, {}) >>, HubTable,
         << {}, {} >>,
         {})

\* a game without an item location that has a round trip at the start
GameNoStart ==
    Game(<< Zone(60, {"Morph"}, {}, {}) >>,
         << Flag(Phantoon, {"Super"}, {}),
            Flag(MotherBrain, {"Morph"}, {}) >>,
         << >>,
         << {} >>,
         StartTable, HubTable,
         << {}, {} >>,
         {})

\* a game whose Mother Brain flag location is reachable from the start and
\* whose save location never has a round trip
GameShort ==
    Game(<< Zone(40, {}, {}, {}),
            Zone(20, {"Morph"}, {}, {}) >>,
         << Flag(Phantoon, {"Super"}, {}),
            Flag(MotherBrain, {}, {}) >>,
         << >>,
         << {"never"} >>,
         StartTable, HubTable,
         << {}, {} >>,
         {})

\* a game in which no single item opens an item location at the start: the
\* other zones wait for the Phantoon flag, which is set by the closure of the
\* step after the one that collects Super
GameFlagged ==
    Game(<< Zone(5, {}, {}, {}),
            Zone(10, {Phantoon}, {}, {}),
            Zone(45, {Phantoon, "Morph"}, {}, {}) >>,
         << Flag(Phantoon, {"Super"}, {}),
            Flag(MotherBrain, {Phantoon, "Morph"}, {}) >>,
         << >>,
         << {} >>,
         StartTable, HubTable,
         << {}, {} >>,
         {})

GameNames == {"Open", "OneWay", "Closed", "NoStart", "Short", "Flagged"}

Games(name) ==
    CASE name = "Open" -> GameOpen
      [] name = "OneWay" -> GameOneWay
      [] name = "Closed" -> GameClosed
      [] name = "NoStart" -> GameNoStart
      [] name = "Short" -> GameShort
      [] name = "Flagged" -> GameFlagged

\* the item_pool setting of the runs: few major items, half the usual tanks
\* and ammunition
PoolCounts ==
    [i \in Items |->
        CASE i = "Morph" -> 1
          [] i = "Spazer" -> 1
          [] i = "Plasma" -> 1
          [] i = "Bombs" -> 1
          [] i = "ETank" -> 7
          [] i = "ReserveTank" -> 2
          [] i = "Super" -> 5
          [] i = "PowerBomb" -> 5
          [] i = "Missile" -> 8
          [] OTHER -> 0]

ItemPool == [k \in 1..21 |-> << ItemNames[k], PoolCounts[ItemNames[k]] >>]

ItemPriorities ==
    << << "Morph" >>,
       << "ETank", "ReserveTank", "Super", "PowerBomb", "Spazer", "Bombs", "Varia" >>,
       << "Plasma" >> >>

\* the settings that vary together from run to run
Profiles ==
    { [random_tank |-> FALSE, spazer_before_plasma |-> FALSE, early_save |-> FALSE,
       filler_items |-> {}, semi_filler_items |-> {}, early_filler_items |-> {},
       start_location_mode |-> "Ship", starting_items |-> <<>>, num_tiers |-> 1],
      [random_tank |-> TRUE, spazer_before_plasma |-> TRUE, early_save |-> TRUE,
       filler_items |-> {"Super"}, semi_filler_items |-> {"PowerBomb"},
       early_filler_items |-> {"ETank"},
       start_location_mode |-> "Random", starting_items |-> <<>>, num_tiers |-> 2],
      [random_tank |-> FALSE, spazer_before_plasma |-> TRUE, early_save |-> FALSE,
       filler_items |-> {"PowerBomb"}, semi_filler_items |-> {"ETank"},
       early_filler_items |-> {},
       start_location_mode |-> "Ship", starting_items |-> << <<"Morph", 1>> >>,
       num_tiers |-> 3] }

Difficulty(profile, progression_rate, stop_early, strength) ==
    [progression_rate |-> progression_rate,
     stop_item_placement_early |-> stop_early,
     item_priority_strength |-> strength,
     item_priorities |-> ItemPriorities,
     item_pool |-> ItemPool,
     wall_jump |-> "Vanilla",
     ridley_proficiency |-> 100,
     all_items_spawn |-> FALSE,
     acid_chozo |-> FALSE,
     random_tank |-> profile.random_tank,
     spazer_before_plasma |-> profile.spazer_before_plasma,
     early_save |-> profile.early_save,
     filler_items |-> profile.filler_items,
     semi_filler_items |-> profile.semi_filler_items,
     early_filler_items |-> profile.early_filler_items,
     start_location_mode |-> profile.start_location_mode,
     starting_items |-> profile.starting_items]

\* the Randomizer that Randomizer::new builds for a game and its tiers
Randomizer(game, profile, progression_rate, stop_early, strength, seed) ==
    LET difficulty == Difficulty(profile, progression_rate, stop_early, strength)
    IN  [game |-> game,
         difficulty |-> difficulty,
         num_tiers |-> profile.num_tiers,
         locked_door_data |-> Games(game).door_req,
         initial_items_remaining |->
             NewItemsRemaining(Games(game).num_locs, difficulty.wall_jump,
                               difficulty.ridley_proficiency, difficulty.item_pool,
                               difficulty.starting_items).remaining,
         seed |-> seed,
         display_seed |-> seed]

EscapeRandomizer(seed) ==
    LET r == Randomizer("Open", CHOOSE p \in Profiles : p.num_tiers = 1,
                        "Fast", FALSE, "Moderate", seed)
    IN  [r EXCEPT !.difficulty.start_location_mode = "Escape"]

(***************************************************************************)
(* Spec: one invocation of Randomizer::randomize.                          *)
(***************************************************************************)
NumClockReadings == 2

ClockReadings == 1..NumClockReadings

NoStep == [summary |-> <<>>, is_early_stop |-> FALSE]

NoHist == [placed |-> <<>>, ever_bireachable |-> {}, exhausted |-> {}]

Randomizers ==
    { Randomizer(game, profile, rate, stop_early, strength, seed) :
        game \in GameNames, profile \in Profiles, rate \in {"Slow", "Uniform", "Fast"},
        stop_early \in BOOLEAN, strength \in {"Moderate", "Heavy"},
        seed \in 0..(NumSeeds - 1) }
    \cup { EscapeRandomizer(seed) : seed \in 0..(NumSeeds - 1) }

Init ==
    /\ NewIdle
    /\ DoorsIdle
    /\ r_pc = "init"
    /\ r_cfg \in Randomizers
    /\ r_rng = 0
    /\ r_state = <<>>
    /\ r_step = NoStep
    /\ r_summaries = <<>>
    /\ r_sel = <<>>
    /\ r_hist = NoHist
    /\ r_result = <<>>
    /\ r_run = 1
    /\ r_first = <<>>

W == Games(r_cfg.game)

BireachableLocs(st) ==
    { i \in 1..Len(st.item_location_state) : st.item_location_state[i].bireachable }

ReachableLocs(st) ==
    { i \in 1..Len(st.item_location_state) : st.item_location_state[i].reachable }

\* lines 4195-4252: the RandomizationState that randomize starts from
InitialState(w, cfg, start_location, hub_location, item_precedence) ==
    [step_num |-> 1,
     item_precedence |-> item_precedence,
     start_location |-> start_location,
     hub_location |-> hub_location,
     item_location_state |->
        [i \in 1..w.num_locs |->
            [placed_item |-> NoItem, collected |-> FALSE, reachable |-> FALSE,
             bireachable |-> FALSE, difficulty_tier |-> -1]],
     flag_location_state |->
        [i \in 1..Len(w.flag_ids) |-> [reachable |-> FALSE, bireachable |-> FALSE]],
     save_location_state |-> [i \in 1..Len(w.save_req) |-> [bireachable |-> FALSE]],
     door_state |-> [i \in 1..Len(w.door_req) |-> [bireachable |-> FALSE]],
     items_remaining |-> cfg.initial_items_remaining,
     global_state |-> GetInitialGlobalState(cfg.difficulty),
     debug_data |-> FALSE,
     previous_debug_data |-> FALSE,
     key_visited_vertices |-> {}]

\* lines 4188-4189: Escape mode
DummyRandomize ==
    /\ r_pc = "init"
    /\ r_cfg.difficulty.start_location_mode = "Escape"
    /\ \E t \in ClockReadings :
          r_result' = [tag |-> "Ok",
                       value |-> DummyRandomization(r_cfg, GetSeedName(r_cfg.seed, t))]
    /\ r_pc' = "done"
    /\ UNCHANGED <<r_cfg, r_rng, r_state, r_step, r_summaries, r_hist, r_run, r_first, r_sel>>
    /\ UNCHANGED <<newVars, doorVars>>

\* lines 4191-4256: the generator, the start location, the item precedence,
\* the first state and its reachability
RandomizeBegin ==
    /\ r_pc = "init"
    /\ r_cfg.difficulty.start_location_mode # "Escape"
    /\ LET difficulty == r_cfg.difficulty
           start == DetermineStartLocation(W, difficulty, num_attempts_start_location,
                                           RngFromSeed(r_cfg.seed))
           prec  == GetItemPrecedence(difficulty, start.rng)
           item_precedence ==
               IF difficulty.spazer_before_plasma
               THEN ApplySpazerPlasmaPriority(prec.seq) ELSE prec.seq
           state == UpdateReachability(W,
                        [InitialState(W, r_cfg, start.start, start.hub, item_precedence)
                            EXCEPT !.debug_data = TRUE])
       IN  IF start.status = "failed"
           THEN /\ r_pc' = "failed"
                /\ r_result' = [tag |-> "Err", value |-> "Failed to find start location."]
                /\ r_rng' = start.rng
                /\ UNCHANGED <<r_state, r_hist>>
           ELSE IF prec.status = "panic"
           THEN /\ r_pc' = "panic"
                /\ r_result' = [tag |-> "Panic", value |-> "get_item_precedence"]
                /\ r_rng' = prec.rng
                /\ UNCHANGED <<r_state, r_hist>>
           ELSE /\ r_rng' = prec.rng
                /\ r_state' = state
                /\ r_hist' = [r_hist EXCEPT !.ever_bireachable = BireachableLocs(state)]
                /\ IF BireachableLocs(state) = {}
                   THEN /\ r_pc' = "failed"
                        /\ r_result' = [tag |-> "Err",
                               value |-> "No initially bireachable item locations"]
                   ELSE /\ r_pc' = "loop"
                        /\ UNCHANGED r_result
    /\ UNCHANGED <<r_cfg, r_step, r_summaries, r_run, r_first, r_sel>>
    /\ UNCHANGED <<newVars, doorVars>>

\* lines 4261-4263 and 3498-3564: the tank precedence of the step, then the
\* flag and door closure
StepClosure ==
    /\ r_pc = "loop"
    /\ LET tank == IF r_cfg.difficulty.random_tank
                   THEN RerandomizeTankPrecedence(r_state.item_precedence, r_rng)
                   ELSE [status |-> "ok", seq |-> r_state.item_precedence, rng |-> r_rng]
           closed == FlagDoorClosure(W, [r_state EXCEPT !.item_precedence = tank.seq],
                                     <<>>, <<>>, 0)
       IN  /\ r_rng' = tank.rng
           /\ IF tank.status = "panic"
              THEN /\ r_pc' = "panic"
                   /\ r_result' = [tag |-> "Panic", value |-> "rerandomize_tank_precedence"]
                   /\ UNCHANGED <<r_state, r_step, r_hist>>
              ELSE /\ r_pc' = "closed"
                   /\ r_state' = closed.state
                   /\ r_step' = [summary |-> <<>>, is_early_stop |-> FALSE,
                                 before |-> r_state,
                                 flags |-> closed.flags, doors |-> closed.doors,
                                 passes |-> closed.passes]
                   /\ r_hist' = [r_hist EXCEPT
                         !.ever_bireachable = @ \cup BireachableLocs(closed.state)]
                   /\ UNCHANGED r_result
    /\ UNCHANGED <<r_cfg, r_summaries, r_run, r_first, r_sel>>
    /\ UNCHANGED <<newVars, doorVars>>

\* a step that never stops early
StopsEarlyNever == FALSE

\* line 3566: the condition of the early stop, after the closure
StopsEarly ==
    r_cfg.difficulty.stop_item_placement_early /\ IsGameBeatable(W, r_state)

\* lines 3566-3585 and 4288-4295: the step stops early and ends the loop
StepStopEarly ==
    /\ r_pc = "closed"
    /\ StopsEarly
    /\ LET state == UpdateReachability(W, r_state)
           summary == GetSpoilerSummary(state, state, r_step.flags, r_step.doors)
       IN  /\ r_state' = [state EXCEPT !.previous_debug_data = state.debug_data]
           /\ r_step' = [r_step EXCEPT !.summary = summary, !.is_early_stop = TRUE]
           /\ r_summaries' = Append(r_summaries, summary)
           /\ r_hist' = [r_hist EXCEPT
                 !.ever_bireachable = @ \cup BireachableLocs(state)]
    /\ r_pc' = "finish"
    /\ UNCHANGED <<r_cfg, r_rng, r_result, r_run, r_first, r_sel>>
    /\ UNCHANGED <<newVars, doorVars>>

\* lines 3587-3606 and 3390-3432: the lists of the step, the two shuffles, the
\* split, the filler selection and the first key selection
SelectionStart(cfg, state, s) ==
    LET pub_loc == PlacedUncollectedBireachableLoc(state)
        sh1 == Shuffle(UnplacedBireachable(state), s)
        sh2 == Shuffle(UnplacedOnewayReachable(state), sh1.rng)
        split == DetermineItemSplit(cfg.difficulty, cfg.initial_items_remaining, state,
                                    Len(sh1.seq), Len(sh2.seq))
    IN  [placed_uncollected_bireachable_loc |-> pub_loc,
         placed_uncollected_bireachable_items |->
            [k \in 1..Len(pub_loc) |-> state.item_location_state[pub_loc[k]].placed_item],
         unplaced_bireachable |-> sh1.seq,
         unplaced_oneway_reachable |-> sh2.seq,
         split |-> split,
         fill |-> SelectFillerItems(cfg.difficulty, cfg.initial_items_remaining, state,
                                    split[2], sh2.rng)]

SelectionWithKeys(cfg, state, start) ==
    LET new_state_filler == NewStateFiller(state, start.fill.items)
        first == SelectKeyItems(cfg.difficulty, cfg.initial_items_remaining,
                                new_state_filler, start.split[1], 0)
    IN  [status |-> IF start.fill.status = "panic" \/ first.tag # "Some"
                    THEN "panic" ELSE "ok",
         placed_uncollected_bireachable_loc |-> start.placed_uncollected_bireachable_loc,
         placed_uncollected_bireachable_items |-> start.placed_uncollected_bireachable_items,
         unplaced_bireachable |-> start.unplaced_bireachable,
         unplaced_oneway_reachable |-> start.unplaced_oneway_reachable,
         split |-> start.split,
         other_items |-> start.fill.items,
         new_state_filler |-> new_state_filler,
         key_items |-> first.items,
         attempt_num |-> 0,
         evaluated |-> <<>>,
         exhausted |-> FALSE,
         new_state |-> <<>>,
         collected |-> <<>>,
         rng |-> start.fill.rng]

StepSelect ==
    /\ r_pc = "closed"
    /\ ~StopsEarly
    /\ LET sel == SelectionWithKeys(r_cfg, r_state, SelectionStart(r_cfg, r_state, r_rng))
       IN  /\ r_rng' = sel.rng
           /\ IF sel.status = "panic"
              THEN /\ r_pc' = "panic"
                   /\ r_result' = [tag |-> "Panic", value |-> "multi_attempt_select_items"]
                   /\ UNCHANGED r_sel
              ELSE /\ r_pc' = "attempt"
                   /\ r_sel' = sel
                   /\ UNCHANGED r_result
    /\ UNCHANGED <<r_cfg, r_state, r_step, r_summaries, r_hist, r_run, r_first>>
    /\ UNCHANGED <<newVars, doorVars>>

\* lines 3435-3449: what provides_progression makes of the current selection
Judged ==
    ProvidesProgression(W, r_state,
                        AttemptState(r_sel.new_state_filler, r_sel.key_items),
                        r_sel.key_items, r_sel.other_items,
                        r_sel.placed_uncollected_bireachable_items,
                        Len(r_sel.unplaced_bireachable))

\* a retry that raises attempt_num before it selects
NextSelectionAfterIncrement ==
    SelectKeyItems(r_cfg.difficulty, r_cfg.initial_items_remaining,
                   r_sel.new_state_filler, r_sel.split[1], r_sel.attempt_num + 1)

\* lines 3457-3459: the selection that follows a rejected one; attempt_num is
\* raised only afterwards
NextSelection ==
    SelectKeyItems(r_cfg.difficulty, r_cfg.initial_items_remaining,
                   r_sel.new_state_filler, r_sel.split[1], r_sel.attempt_num)

\* lines 3442-3455: the selection provides progression and is returned
AttemptAccept ==
    /\ r_pc = "attempt"
    /\ Judged.ok
    /\ r_sel' = [r_sel EXCEPT !.new_state = Judged.state,
                              !.collected = Judged.collected,
                              !.evaluated = Append(@, r_sel.key_items)]
    /\ r_pc' = "place"
    /\ UNCHANGED <<r_cfg, r_rng, r_state, r_step, r_summaries, r_hist, r_result, r_run,
                   r_first>>
    /\ UNCHANGED <<newVars, doorVars>>

\* lines 3457-3460 and 3488: the selection is rejected and another one follows
AttemptRetry ==
    /\ r_pc = "attempt"
    /\ ~Judged.ok
    /\ NextSelection.tag = "Some"
    /\ r_sel' = [r_sel EXCEPT !.key_items = NextSelection.items,
                              !.attempt_num = @ + 1,
                              !.evaluated = Append(@, r_sel.key_items)]
    /\ UNCHANGED <<r_cfg, r_rng, r_pc, r_state, r_step, r_summaries, r_hist, r_result,
                   r_run, r_first>>
    /\ UNCHANGED <<newVars, doorVars>>

\* an exhaustion that keeps the rejected key items under stop-early too
NothingSelectionSkipped ==
    [r_sel EXCEPT !.new_state = Judged.state,
                  !.collected = Judged.collected,
                  !.evaluated = Append(@, r_sel.key_items),
                  !.exhausted = TRUE]

\* lines 3463-3480: the key items of an exhausted selection become Nothing
NothingSelection ==
    LET nothings == Repeat("Nothing", Len(r_sel.key_items))
        pp == ProvidesProgression(W, r_state,
                  AttemptState(r_sel.new_state_filler, nothings),
                  nothings, r_sel.other_items,
                  r_sel.placed_uncollected_bireachable_items,
                  Len(r_sel.unplaced_bireachable))
    IN  [r_sel EXCEPT !.key_items = nothings,
                      !.new_state = pp.state,
                      !.collected = pp.collected,
                      !.evaluated = Append(@, r_sel.key_items),
                      !.exhausted = TRUE]

\* lines 3461-3487: the selection is rejected and no other one is left
AttemptExhausted ==
    /\ r_pc = "attempt"
    /\ ~Judged.ok
    /\ NextSelection.tag = "None"
    /\ r_sel' = IF r_cfg.difficulty.stop_item_placement_early
                THEN NothingSelection
                ELSE [r_sel EXCEPT !.new_state = Judged.state,
                                   !.collected = Judged.collected,
                                   !.evaluated = Append(@, r_sel.key_items),
                                   !.exhausted = TRUE]
    /\ r_pc' = "place"
    /\ UNCHANGED <<r_cfg, r_rng, r_state, r_step, r_summaries, r_hist, r_result, r_run,
                   r_first>>
    /\ UNCHANGED <<newVars, doorVars>>

\* a placement that marks the one-way reachable locations collected as well
StepPlacementAllCollected(w, cfg, state, sel) ==
    LET placed == PlaceItems(w, cfg, state,
                      MarkCollected(
                          [sel.new_state EXCEPT
                              !.previous_debug_data = state.debug_data,
                              !.key_visited_vertices = state.key_visited_vertices],
                          sel.placed_uncollected_bireachable_loc),
                      sel.unplaced_bireachable, sel.unplaced_oneway_reachable,
                      sel.key_items, sel.other_items)
    IN  [status |-> placed.status,
         state |-> MarkCollected(placed.state,
                       sel.unplaced_bireachable \o sel.unplaced_oneway_reachable),
         all_locations |-> placed.all_locations]

\* lines 3615-3641: new_state after the collected marks and place_items
StepPlacement(w, cfg, state, sel) ==
    LET placed == PlaceItems(w, cfg, state,
                      MarkCollected(
                          [sel.new_state EXCEPT
                              !.previous_debug_data = state.debug_data,
                              !.key_visited_vertices = state.key_visited_vertices],
                          sel.placed_uncollected_bireachable_loc),
                      sel.unplaced_bireachable, sel.unplaced_oneway_reachable,
                      sel.key_items, sel.other_items)
    IN  [status |-> placed.status,
         state |-> MarkCollected(placed.state, sel.unplaced_bireachable),
         all_locations |-> placed.all_locations]

\* how the locations of a step got their items: the first key_items.len()
\* locations of all_locations from the key selection, the others from the
\* filler selection
Provenance(before, sel, all_locations, prior) ==
    [k \in 1..Len(all_locations) |->
        [loc |-> all_locations[k],
         item |-> (sel.key_items \o sel.other_items)[k],
         src |-> IF k <= Len(sel.key_items) THEN "key" ELSE "filler",
         step |-> before.step_num,
         reachable |-> before.item_location_state[all_locations[k]].reachable,
         bireachable |-> before.item_location_state[all_locations[k]].bireachable,
         bireachable_before |-> all_locations[k] \in prior]]

StepRecord(step, sel, closed, summary, all_locations) ==
    [summary |-> summary, is_early_stop |-> FALSE,
     before |-> step.before, flags |-> step.flags, doors |-> step.doors,
     passes |-> step.passes,
     closed |-> closed,
     key_items |-> sel.key_items,
     other_items |-> sel.other_items,
     split |-> sel.split,
     evaluated |-> sel.evaluated,
     exhausted |-> sel.exhausted,
     collected |-> sel.collected,
     unplaced_bireachable |-> sel.unplaced_bireachable,
     unplaced_oneway_reachable |-> sel.unplaced_oneway_reachable,
     placed_uncollected_bireachable_loc |-> sel.placed_uncollected_bireachable_loc,
     all_locations |-> all_locations]

StepDone(out, summary) ==
    /\ r_pc' = "check"
    /\ r_state' = out.state
    /\ r_step' = StepRecord(r_step, r_sel, r_state, summary, out.all_locations)
    /\ r_summaries' = Append(r_summaries, summary)
    /\ r_hist' = [placed |-> r_hist.placed
                     \o Provenance(r_state, r_sel, out.all_locations,
                                   r_hist.ever_bireachable),
                  ever_bireachable |->
                     r_hist.ever_bireachable \cup BireachableLocs(out.state),
                  exhausted |->
                     IF r_sel.exhausted THEN r_hist.exhausted \cup {r_state.step_num}
                     ELSE r_hist.exhausted]
    /\ UNCHANGED r_result

\* lines 3615-3658 and 4266-4291: the items are placed, the step returns
StepPlace ==
    /\ r_pc = "place"
    /\ LET out == StepPlacement(W, r_cfg, r_state, r_sel)
       IN  IF out.status = "panic"
           THEN /\ r_pc' = "panic"
                /\ r_result' = [tag |-> "Panic", value |-> "place_items"]
                /\ UNCHANGED <<r_state, r_step, r_summaries, r_hist>>
           ELSE StepDone(out, GetSpoilerSummary(r_state, out.state, r_step.flags,
                                                r_step.doors))
    /\ UNCHANGED <<r_cfg, r_rng, r_sel, r_run, r_first>>
    /\ UNCHANGED <<newVars, doorVars>>

\* line 4288: any_progress
AnyProgress == Len(r_step.summary.items) > 0 \/ Len(r_step.summary.flags) > 0

\* lines 4307-4312: an item with a positive initial count that was not collected
MissingItems ==
    { i \in Items : r_cfg.initial_items_remaining[i] > 0
                        /\ i \notin r_state.global_state.items }

\* lines 4316-4324
PhantoonDefeated ==
    \E i \in 1..Len(W.flag_ids) :
        W.flag_ids[i] = Phantoon /\ r_state.flag_location_state[i].bireachable

KeyItemsCheckSkipped(early, missing) == FALSE

\* line 4305-4312: the check of the collected items fails
KeyItemsCheckFails(early, missing) == ~early /\ missing # {}

\* lines 4297-4331: what the loop makes of a step without progress
NoProgressVerdict ==
    IF ~IsGameBeatable(W, r_state) THEN "Attempt failed: Game not beatable"
    ELSE IF KeyItemsCheckFails(r_cfg.difficulty.stop_item_placement_early, MissingItems)
         THEN "Attempt failed: Key items not all collectible"
         ELSE IF ~r_cfg.difficulty.stop_item_placement_early /\ ~PhantoonDefeated
              THEN "Attempt failed: Phantoon not defeated"
              ELSE "Success"

\* lines 4297-4331: no progress, and the attempt has failed
LoopAttemptFailed ==
    /\ r_pc = "check"
    /\ ~AnyProgress
    /\ NoProgressVerdict # "Success"
    /\ r_pc' = "failed"
    /\ r_result' = [tag |-> "Err", value |-> NoProgressVerdict]
    /\ UNCHANGED <<r_cfg, r_rng, r_state, r_step, r_summaries, r_hist, r_run, r_first, r_sel>>
    /\ UNCHANGED <<newVars, doorVars>>

\* lines 4297-4334: no progress, and the attempt has succeeded
LoopSuccess ==
    /\ r_pc = "check"
    /\ ~AnyProgress
    /\ NoProgressVerdict = "Success"
    /\ r_pc' = "finish"
    /\ UNCHANGED <<r_cfg, r_rng, r_state, r_step, r_summaries, r_hist, r_result, r_run,
                   r_first, r_sel>>
    /\ UNCHANGED <<newVars, doorVars>>

\* a loop that asks for no save location
NoSaveNeverChecked == FALSE

\* lines 4337-4338: the condition of the save check
NoSaveAfterFirstStep ==
    /\ r_state.step_num = 1
    /\ r_cfg.difficulty.early_save
    /\ ~\E i \in 1..Len(r_state.save_location_state) :
            r_state.save_location_state[i].bireachable

\* lines 4337-4343: the first step made progress but no save location has a
\* round trip
LoopNoSave ==
    /\ r_pc = "check"
    /\ AnyProgress
    /\ NoSaveAfterFirstStep
    /\ r_pc' = "failed"
    /\ r_result' = [tag |-> "Err", value |-> "Attempt failed: no accessible save location"]
    /\ UNCHANGED <<r_cfg, r_rng, r_state, r_step, r_summaries, r_hist, r_run, r_first, r_sel>>
    /\ UNCHANGED <<newVars, doorVars>>

\* line 4344: the loop goes on with the next step
LoopContinue ==
    /\ r_pc = "check"
    /\ AnyProgress
    /\ ~NoSaveAfterFirstStep
    /\ r_state' = [r_state EXCEPT !.step_num = @ + 1]
    /\ r_pc' = "loop"
    /\ UNCHANGED <<r_cfg, r_rng, r_step, r_summaries, r_hist, r_result, r_run, r_first, r_sel>>
    /\ UNCHANGED <<newVars, doorVars>>

\* how finish filled or changed the locations
FinishProvenance(before, after, prior) ==
    SelectSeq([i \in 1..Len(before.item_location_state) |->
                  [loc |-> i,
                   item |-> after.item_location_state[i].placed_item,
                   src |-> "finish",
                   step |-> before.step_num,
                   reachable |-> before.item_location_state[i].reachable,
                   bireachable |-> before.item_location_state[i].bireachable,
                   bireachable_before |-> i \in prior]],
              LAMBDA p : before.item_location_state[p.loc].placed_item # p.item)

\* line 4346: finish
RunFinish ==
    /\ r_pc = "finish"
    /\ LET fin == Finish(r_cfg.difficulty, r_state)
       IN  IF fin.status = "panic"
           THEN /\ r_pc' = "panic"
                /\ r_result' = [tag |-> "Panic", value |-> "finish"]
                /\ UNCHANGED <<r_state, r_hist>>
           ELSE /\ r_pc' = "finished"
                /\ r_state' = fin.state
                /\ r_hist' = [r_hist EXCEPT
                      !.placed = @ \o FinishProvenance(r_state, r_state',
                                                       r_hist.ever_bireachable)]
                /\ UNCHANGED r_result
    /\ UNCHANGED <<r_cfg, r_rng, r_step, r_summaries, r_run, r_first, r_sel>>
    /\ UNCHANGED <<newVars, doorVars>>

\* lines 4347-4354: get_randomization, which reads the clock for the seed name
GetRandomization ==
    /\ r_pc = "finished"
    /\ \E t \in ClockReadings :
          r_result' = [tag |-> "Ok",
                       value |-> Randomization(r_cfg, r_state, r_summaries,
                                               GetSeedName(r_cfg.seed, t))]
    /\ r_pc' = "done"
    /\ UNCHANGED <<r_cfg, r_rng, r_state, r_step, r_summaries, r_hist, r_run, r_first, r_sel>>
    /\ UNCHANGED <<newVars, doorVars>>

Next ==
    \/ DummyRandomize
    \/ RandomizeBegin
    \/ StepClosure
    \/ StepStopEarly
    \/ StepSelect
    \/ AttemptAccept
    \/ AttemptRetry
    \/ AttemptExhausted
    \/ StepPlace
    \/ LoopAttemptFailed
    \/ LoopSuccess
    \/ LoopNoSave
    \/ LoopContinue
    \/ RunFinish
    \/ GetRandomization

Spec == Init /\ [][Next]_vars

(***************************************************************************)
(* SpecTwice: randomize is invoked a second time on the same Randomizer    *)
(* with the same attempt number and seed, once the first call has          *)
(* returned.                                                               *)
(***************************************************************************)
Returned == r_pc \in {"done", "failed", "panic"}

Reinvoke ==
    /\ Returned
    /\ r_run = 1
    /\ r_run' = 2
    /\ r_first' = r_result
    /\ r_pc' = "init"
    /\ r_rng' = 0
    /\ r_state' = <<>>
    /\ r_step' = NoStep
    /\ r_summaries' = <<>>
    /\ r_sel' = <<>>
    /\ r_hist' = NoHist
    /\ r_result' = <<>>
    /\ UNCHANGED r_cfg
    /\ UNCHANGED <<newVars, doorVars>>

NextTwice == Next \/ Reinvoke

SpecTwice == Init /\ [][NextTwice]_vars

(***************************************************************************)
(* Properties of randomize.                                                *)
(***************************************************************************)
StopEarly == r_cfg.difficulty.stop_item_placement_early

Escape == r_cfg.difficulty.start_location_mode = "Escape"

\* the positions of randomize at which `state` exists
HasState ==
    \/ r_pc \in {"loop", "closed", "attempt", "place", "check", "finish", "finished"}
    \/ r_pc = "done" /\ ~Escape

AfterFinish == r_pc = "finished" \/ (r_pc = "done" /\ ~Escape)

NumLocations == Len(r_state.item_location_state)

PlacedLocs(st) ==
    { i \in 1..Len(st.item_location_state) :
        st.item_location_state[i].placed_item # NoItem }

NumPlaced == Cardinality(PlacedLocs(r_state))

\* how often each item occurs in the placement
PlacedCounts(st) ==
    [item \in Items |->
        Cardinality({ i \in 1..Len(st.item_location_state) :
                        st.item_location_state[i].placed_item = item })]

HistIdx == 1..Len(r_hist.placed)

ResultButSeedName(res) ==
    IF res.tag = "Ok" THEN [res EXCEPT !.value.seed_name = ""] ELSE res

C2_BeatableOnSuccess ==
    (r_pc \in {"finish", "finished", "done"} /\ ~Escape /\ ~StopEarly) =>
        /\ IsGameBeatable(W, r_state)
        /\ \A i \in Items :
              r_cfg.initial_items_remaining[i] > 0 => i \in r_state.global_state.items
        /\ \E i \in 1..Len(W.flag_ids) :
              W.flag_ids[i] = Phantoon /\ r_state.flag_location_state[i].bireachable

C2_Witness ==
    /\ r_pc = "done"
    /\ ~Escape
    /\ ~StopEarly
    /\ r_result.tag = "Ok"
    /\ Len(r_summaries) > 2

\* C3: with stop_item_placement_early off, when finish runs the number of
\* item locations without an item equals sum(items_remaining); finish does
\* not panic; after it every location has an item and each item occurs in
\* the placement as often as initial_items_remaining says.
C3_ConservationAtEnd ==
    (~Escape /\ ~StopEarly) =>
        /\ r_pc = "finish" =>
              NumLocations - NumPlaced = SumVec(r_state.items_remaining)
        /\ r_pc = "panic" => r_result.value # "finish"
        /\ AfterFinish =>
              /\ NumPlaced = NumLocations
              /\ PlacedCounts(r_state) = r_cfg.initial_items_remaining

C3_Witness ==
    /\ r_pc = "finished"
    /\ ~StopEarly
    /\ \E k \in HistIdx : r_hist.placed[k].src = "finish"
    /\ \E k \in HistIdx : r_hist.placed[k].src = "key"
    /\ \E k \in HistIdx : r_hist.placed[k].src = "filler"

\* C4: in every placement step an item of the key selection goes to a
\* location that is bireachable in that step, and a location that is only
\* one-way reachable gets its item from the filler selection.
C4_OneWayQuarantine ==
    HasState =>
        \A k \in HistIdx :
            LET p == r_hist.placed[k]
            IN  /\ p.src = "key" => p.bireachable
                /\ (p.src # "finish" /\ p.reachable /\ ~p.bireachable) => p.src = "filler"

C4_Witness ==
    /\ HasState
    /\ \E k \in HistIdx : r_hist.placed[k].src = "key"
    /\ \E k \in HistIdx :
          LET p == r_hist.placed[k]
          IN  p.src = "filler" /\ p.reachable /\ ~p.bireachable

\* C5 (as stated): an item other than Nothing and Missile is placed only at a
\* location that is bireachable in the step of its placement or was
\* bireachable in an earlier step.
C5_OnlyAtBireachable ==
    HasState =>
        \A k \in HistIdx :
            LET p == r_hist.placed[k]
            IN  p.item \notin {"Nothing", "Missile"} =>
                    (p.bireachable \/ p.bireachable_before)

\* C5 (amended): an item other than Nothing and Missile that the key
\* selection chose is placed at a location bireachable in that step; one that
\* the filler selection chose is placed at a location reachable in that step,
\* bireachable or only one-way; finish, with stop_item_placement_early off,
\* puts the items that are left at the locations that are still empty,
\* whatever their reachability.
C5_BireachableUnlessFillerOrFinish ==
    HasState =>
        \A k \in HistIdx :
            LET p == r_hist.placed[k]
            IN  p.item \notin {"Nothing", "Missile"} =>
                    \/ p.bireachable
                    \/ p.src = "filler" /\ p.reachable
                    \/ p.src = "finish" /\ ~StopEarly

C5_Witness ==
    /\ HasState
    /\ \E k \in HistIdx :
          LET p == r_hist.placed[k]
          IN  /\ p.item \notin {"Nothing", "Missile"}
              /\ p.src = "filler" /\ p.reachable /\ ~p.bireachable
    /\ \E k \in HistIdx :
          LET p == r_hist.placed[k]
          IN  /\ p.item \notin {"Nothing", "Missile"}
              /\ p.src = "finish" /\ ~p.reachable /\ ~p.bireachable_before

\* C6: within one call of randomize, global_state.items, global_state.flags
\* and global_state.doors_unlocked of the state only grow, over the closure,
\* the selection with its retries and its exhaustion, the early stop and
\* finish; the state that multi_attempt_select_items returns holds all of the
\* state's.
C6_Grows ==
    /\ (HasState /\ HasState') =>
          /\ r_state.global_state.items \subseteq r_state'.global_state.items
          /\ r_state.global_state.flags \subseteq r_state'.global_state.flags
          /\ r_state.global_state.doors_unlocked
                \subseteq r_state'.global_state.doors_unlocked
    /\ r_pc' = "place" =>
          /\ r_state.global_state.items \subseteq r_sel'.new_state.global_state.items
          /\ r_state.global_state.flags \subseteq r_sel'.new_state.global_state.flags
          /\ r_state.global_state.doors_unlocked
                \subseteq r_sel'.new_state.global_state.doors_unlocked

C6_MonotoneGlobalState == [][C6_Grows]_vars

C6_Witness ==
    /\ r_pc = "check"
    /\ r_state.step_num > 2
    /\ Len(r_step.evaluated) > 1
    /\ r_step.before.global_state.items # r_state.global_state.items
    /\ r_state.global_state.flags # {}
    /\ r_state.global_state.doors_unlocked # {}

SpecFair ==
    /\ Spec
    /\ WF_vars(StepStopEarly)
    /\ WF_vars(RunFinish)
    /\ WF_vars(GetRandomization)

\* the closure of a step is done and the early stop applies
AtEarlyStop == r_pc = "closed" /\ StopEarly /\ IsGameBeatable(W, r_state)

\* the step that follows the closure places nothing and ends the loop
C11_StopsWithoutPlacing ==
    AtEarlyStop =>
        /\ r_pc' = "finish"
        /\ r_step'.is_early_stop
        /\ r_hist'.placed = r_hist.placed
        /\ \A i \in 1..NumLocations :
              r_state'.item_location_state[i].placed_item
                  = r_state.item_location_state[i].placed_item

NoSaveBireachable ==
    \A i \in 1..Len(r_state.save_location_state) :
        ~r_state.save_location_state[i].bireachable

NoSaveError == [tag |-> "Err", value |-> "Attempt failed: no accessible save location"]

\* C12 (as stated): with early_save on, a call whose first step has completed
\* with no save location bireachable does not go on to finish: it never
\* returns success.
C12_NoSuccessWithoutSave ==
    (r_pc \in {"finish", "finished", "done"} /\ ~Escape
        /\ r_cfg.difficulty.early_save /\ r_state.step_num = 1)
    => ~NoSaveBireachable

\* the loop has the outcome of the first step before it, early_save is on and
\* no save location is bireachable
C12_FirstStepWithoutSave ==
    /\ r_pc = "check"
    /\ r_state.step_num = 1
    /\ r_cfg.difficulty.early_save
    /\ NoSaveBireachable

C12_FailsAfterProgress ==
    (C12_FirstStepWithoutSave
        /\ (Len(r_step.summary.items) > 0 \/ Len(r_step.summary.flags) > 0))
    => (r_pc' = "failed" /\ r_result' = NoSaveError)

\* C12 (amended): with early_save on, when the first step was no early stop
\* and made progress (its summary has an item or a flag) and leaves no save
\* location bireachable, the attempt fails with the no-accessible-save error;
\* a call that goes on to finish from a first step without a bireachable save
\* location does so from an early stop or from a step without progress, for
\* which the save location is not looked at.
C12_NoSaveFailsAfterProgress ==
    /\ [][C12_FailsAfterProgress]_vars
    /\ []((r_pc \in {"finish", "finished", "done"} /\ ~Escape
              /\ r_cfg.difficulty.early_save /\ r_state.step_num = 1
              /\ NoSaveBireachable)
          => (r_step.is_early_stop
                \/ (Len(r_step.summary.items) = 0 /\ Len(r_step.summary.flags) = 0)))

\* the attempt has failed for the save location after a first step that
\* placed items
C12_Witness ==
    /\ r_pc = "failed"
    /\ r_result = NoSaveError
    /\ r_state.step_num = 1
    /\ r_hist.placed # <<>>

(***************************************************************************)
(* SpecStart: determine_start_location over tables of two start locations  *)
(* and two hubs.  What the logic says of a start location and of a hub     *)
(* (apply_requirement, traverse, get_bireachable_idxs) is part of the      *)
(* table.                                                                  *)
(***************************************************************************)
NumStartSeeds == 4

StartShapes ==
    [requires_ok : BOOLEAN,
     hub_forward : {{}, {"Parlor"}, {"Ship", "Parlor"}},
     hub_bireachable : {{"Parlor"}, {"Ship", "Parlor"}}]

StartTables ==
    { << StartLoc("Big Pink", a.requires_ok, a.hub_forward, a.hub_bireachable),
         StartLoc("Aqueduct", b.requires_ok, b.hub_forward, b.hub_bireachable) >> :
        a \in StartShapes, b \in StartShapes }

HubTables == { << Hub("Ship", a), Hub("Parlor", b) >> : a \in BOOLEAN, b \in BOOLEAN }

StartInit ==
    /\ DoorsIdle
    /\ RandIdle
    /\ n_pc = "start"
    /\ n_cfg \in [start_locations : StartTables,
                  hub_locations : HubTables,
                  difficulty : [start_location_mode : {"Ship", "Random"}],
                  num_attempts : {1, num_attempts_start_location},
                  seed : 0..(NumStartSeeds - 1)]
    /\ n_out = <<>>

DetermineStart ==
    /\ n_pc = "start"
    /\ n_pc' = "start_done"
    /\ n_out' = DetermineStartLocation(n_cfg, n_cfg.difficulty, n_cfg.num_attempts,
                                       RngFromSeed(n_cfg.seed))
    /\ UNCHANGED n_cfg
    /\ UNCHANGED <<doorVars, randVars>>

StartNext == DetermineStart

SpecStart == StartInit /\ [][StartNext]_vars

\* the generator after i draws
RECURSIVE RngAfter(_, _)
RngAfter(s, i) == IF i = 0 THEN s ELSE RngAfter(RngNext(s), i - 1)

\* the start location of the i-th pass (from 0) of the sampling loop
SampledStart(i) ==
    n_cfg.start_locations[
        GenRange(RngAfter(RngFromSeed(n_cfg.seed), i), 0, Len(n_cfg.start_locations)) + 1]

\* the four conditions of a start location and a hub
StartHubValid(start_loc, hub) ==
    /\ start_loc.requires_ok
    /\ hub.name \in start_loc.hub_forward
    /\ hub.name \in start_loc.hub_bireachable
    /\ hub.requires_ok

ValidHubs(start_loc) ==
    { h \in 1..Len(n_cfg.hub_locations) : StartHubValid(start_loc, n_cfg.hub_locations[h]) }

\* C13: in Random mode determine_start_location returns the first sampled
\* start location that has a hub for which the start's requirement holds, the
\* forward cost to the hub is finite, the hub is bireachable and the hub's
\* requirement holds, together with the first such hub in table order; it
\* returns the error when none of the num_attempts sampled start locations
\* has such a hub.
C13_FirstValidStartAndHub ==
    (n_pc = "start_done" /\ n_cfg.difficulty.start_location_mode = "Random") =>
        LET good == { i \in 0..(n_cfg.num_attempts - 1) : ValidHubs(SampledStart(i)) # {} }
        IN  IF good = {} THEN n_out.status = "failed"
            ELSE LET i == CHOOSE j \in good : \A k \in good : j <= k
                     h == CHOOSE g \in ValidHubs(SampledStart(i)) :
                            \A k \in ValidHubs(SampledStart(i)) : g <= k
                 IN  /\ n_out.status = "ok"
                     /\ n_out.start = SampledStart(i).name
                     /\ n_out.hub = n_cfg.hub_locations[h].name

\* a start location returned after an earlier sampled one was turned down,
\* with the second hub of the table because the first one does not pass
C13_Witness ==
    /\ n_pc = "start_done"
    /\ n_cfg.difficulty.start_location_mode = "Random"
    /\ n_out.status = "ok"
    /\ ValidHubs(SampledStart(0)) = {}
    /\ n_out.hub = "Parlor"
    /\ \E k \in 1..2 :
          /\ n_cfg.start_locations[k].name = n_out.start
          /\ "Ship" \in n_cfg.start_locations[k].hub_forward
          /\ n_cfg.hub_locations[1].requires_ok

(***************************************************************************)
(* SpecPrecedence: the item precedence of a call of randomize: built by    *)
(* get_item_precedence, put through apply_spazer_plasma_priority when      *)
(* spazer_before_plasma is set, and through rerandomize_tank_precedence at *)
(* the head of every step when random_tank is set.                         *)
(***************************************************************************)
NumPrecedenceSeeds == 40

MaxPrecedenceSteps == 3

\* priority groups that are pairwise disjoint, without duplicates, and name
\* neither Missile nor Nothing; the fourth has two groups, the fifth no tank
PriorityGroupChoices ==
    { << << "Morph" >>, << "ETank", "ReserveTank", "Spazer" >>, << "Plasma" >> >>,
      << << "Plasma", "ETank" >>, << "Morph" >>, << "Spazer", "ReserveTank" >> >>,
      << << >>, << "Plasma", "Spazer", "ETank", "ReserveTank", "Morph" >>, << >> >>,
      << << "ETank", "Plasma" >>, << "ReserveTank", "Spazer" >> >>,
      << << "Morph" >>, << "Spazer" >>, << "Plasma" >> >> }

PrecedenceInit ==
    /\ DoorsIdle
    /\ RandIdle
    /\ n_pc = "precedence"
    /\ n_cfg \in [item_priorities : PriorityGroupChoices,
                  item_priority_strength : {"Moderate", "Heavy"},
                  progression_rate : {"Slow", "Fast"},
                  spazer_before_plasma : BOOLEAN,
                  seed : 0..(NumPrecedenceSeeds - 1)]
    /\ n_out = <<>>

\* randomize, lines 4216-4231
PrecedenceBuild ==
    /\ n_pc = "precedence"
    /\ LET prec == GetItemPrecedence(n_cfg, RngFromSeed(n_cfg.seed))
       IN  /\ n_pc' = IF prec.status = "panic" THEN "precedence_panic" ELSE "precedence_step"
           /\ n_out' = [status |-> prec.status,
                        built |-> prec.seq,
                        seq |-> IF n_cfg.spazer_before_plasma
                                THEN ApplySpazerPlasmaPriority(prec.seq) ELSE prec.seq,
                        rng |-> prec.rng,
                        steps |-> 0]
    /\ UNCHANGED n_cfg
    /\ UNCHANGED <<doorVars, randVars>>

\* randomize, lines 4261-4263, with random_tank set
PrecedenceTankStep ==
    /\ n_pc = "precedence_step"
    /\ n_out.steps < MaxPrecedenceSteps
    /\ LET tank == RerandomizeTankPrecedence(n_out.seq, n_out.rng)
       IN  /\ n_pc' = IF tank.status = "panic" THEN "precedence_panic" ELSE "precedence_step"
           /\ n_out' = [n_out EXCEPT !.status = tank.status, !.seq = tank.seq,
                                     !.rng = tank.rng, !.steps = @ + 1]
    /\ UNCHANGED n_cfg
    /\ UNCHANGED <<doorVars, randVars>>

PrecedenceNext == PrecedenceBuild \/ PrecedenceTankStep

SpecPrecedence == PrecedenceInit /\ [][PrecedenceNext]_vars

\* the items that the priority groups name, with Missile and Nothing
NamedItems ==
    UNION { SeqRange(n_cfg.item_priorities[g]) : g \in 1..Len(n_cfg.item_priorities) }
        \cup {"Missile", "Nothing"}

\* C14: for priority groups that are pairwise disjoint, without duplicates
\* and without Missile and Nothing, the item precedence holds every item of
\* the groups and Missile and Nothing exactly once: as get_item_precedence
\* builds it (Moderate and Heavy), after apply_spazer_plasma_priority and
\* after every rerandomize_tank_precedence.
C14_PrecedenceIsPermutation ==
    (n_pc = "precedence_step") =>
        /\ Len(n_out.built) = Cardinality(NamedItems)
        /\ SeqRange(n_out.built) = NamedItems
        /\ Len(n_out.seq) = Cardinality(NamedItems)
        /\ SeqRange(n_out.seq) = NamedItems

\* a Moderate precedence with two Early and two Late items, in which Spazer
\* and Plasma changed places and the tanks changed places later
C14_Witness ==
    /\ n_pc = "precedence_step"
    /\ n_cfg.item_priority_strength = "Moderate"
    /\ Len(n_cfg.item_priorities[1]) = 2
    /\ n_out.steps = MaxPrecedenceSteps
    /\ Position(n_out.built, "Plasma") < Position(n_out.built, "Spazer")
    /\ Position(n_out.seq, "Spazer") < Position(n_out.seq, "Plasma")
    /\ (Position(n_out.built, "ETank") < Position(n_out.built, "ReserveTank"))
          # (Position(n_out.seq, "ETank") < Position(n_out.seq, "ReserveTank"))

(***************************************************************************)
(* SpecAreas: randomize_map_areas over maps of three rooms.                *)
(***************************************************************************)
NumAreaSeeds == 4

NumAreaRooms == 3

\* subarea_mapping: for each of the n areas a shuffle of (0..2)
RECURSIVE SubareaMappings(_, _)
SubareaMappings(n, s) ==
    IF n = 0 THEN [maps |-> <<>>, rng |-> s]
    ELSE LET sh   == Shuffle(<< 0, 1 >>, s)
             rest == SubareaMappings(n - 1, sh.rng)
         IN  [maps |-> << sh.seq >> \o rest.maps, rng |-> rest.rng]

\* a relabelling that gives every subarea of an area the same label
SubareaRelabelFirst(subarea_mapping, area, subarea) == subarea_mapping[area + 1][1]

\* subarea_mapping[map.area[i]][map.subarea[i]], map.area[i] being the new area
SubareaRelabel(subarea_mapping, area, subarea) == subarea_mapping[area + 1][subarea + 1]

\* randomize_map_areas
RandomizeMapAreas(map, seed) ==
    LET area_mapping == Shuffle(<< 0, 1, 2, 3, 4, 5 >>, RngFromSeed(seed))
        subarea_mapping == SubareaMappings(6, area_mapping.rng).maps
        area == [i \in 1..Len(map.area) |-> area_mapping.seq[map.area[i] + 1]]
    IN  [area |-> area,
         subarea |-> [i \in 1..Len(map.area) |->
                         SubareaRelabel(subarea_mapping, area[i], map.subarea[i])]]

AreasInit ==
    /\ DoorsIdle
    /\ RandIdle
    /\ n_pc = "areas"
    /\ n_cfg \in [area : [1..NumAreaRooms -> 0..5],
                  subarea : [1..NumAreaRooms -> 0..1],
                  seed : 0..(NumAreaSeeds - 1)]
    /\ n_out = <<>>

AreasRandomize ==
    /\ n_pc = "areas"
    /\ n_pc' = "areas_done"
    /\ n_out' = RandomizeMapAreas(n_cfg, n_cfg.seed)
    /\ UNCHANGED n_cfg
    /\ UNCHANGED <<doorVars, randVars>>

AreasNext == AreasRandomize

SpecAreas == AreasInit /\ [][AreasNext]_vars

\* C15: after randomize_map_areas two rooms have the same area if and only
\* if they had the same area before, and two rooms of the same area have the
\* same subarea if and only if they had the same subarea before; the new
\* labels are areas 0..5 and subareas 0..1.
C15_AreaShuffleIsBijection ==
    n_pc = "areas_done" =>
        \A i, j \in 1..NumAreaRooms :
            /\ n_out.area[i] \in 0..5
            /\ n_out.subarea[i] \in 0..1
            /\ (n_out.area[i] = n_out.area[j]) <=> (n_cfg.area[i] = n_cfg.area[j])
            /\ n_cfg.area[i] = n_cfg.area[j] =>
                  ((n_out.subarea[i] = n_out.subarea[j])
                      <=> (n_cfg.subarea[i] = n_cfg.subarea[j]))

\* a map with two rooms of one area in different subareas and a room of
\* another area, whose areas are relabelled and whose subareas change in one
\* area and stay in another
C15_Witness ==
    /\ n_pc = "areas_done"
    /\ \E i, j, k \in 1..NumAreaRooms :
          /\ n_cfg.area[i] = n_cfg.area[j]
          /\ n_cfg.subarea[i] # n_cfg.subarea[j]
          /\ n_cfg.area[k] # n_cfg.area[i]
          /\ n_out.area[i] # n_cfg.area[i]
          /\ n_out.subarea[i] # n_cfg.subarea[i]
          /\ n_out.subarea[k] = n_cfg.subarea[k]

(***************************************************************************)
(* The selections that multi_attempt_select_items hands to                 *)
(* provides_progression in its loop.                                       *)
(***************************************************************************)
InSelection == r_pc \in {"attempt", "place"}

\* the selections judged so far, with the one that is about to be judged
Evaluations ==
    IF r_pc = "attempt" THEN Append(r_sel.evaluated, r_sel.key_items) ELSE r_sel.evaluated

SelectionCandidates ==
    KeyCandidates(r_cfg.difficulty, r_cfg.initial_items_remaining, r_sel.new_state_filler)

\* the first k - 1 items of the priority order and the candidate at offset a
SelectionAt(a) ==
    IF r_sel.split[1] = 0 THEN <<>>
    ELSE SubSeq(SelectionCandidates.remaining_items, 1, r_sel.split[1] - 1)
            \o << SelectionCandidates.remaining_items[r_sel.split[1] + a] >>

\* C16 as stated: the n-th selection judged (n = 0, 1, ...) ends with the
\* n-th candidate, and no selection is judged twice.
C16_NoSelectionTwice ==
    InSelection =>
        /\ \A m \in 1..Len(Evaluations) : Evaluations[m] = SelectionAt(m - 1)
        /\ \A m1, m2 \in 1..Len(Evaluations) :
              m1 # m2 => Evaluations[m1] # Evaluations[m2]

\* C16: the first two selections judged are both the one with candidate 0,
\* the n-th one after them (n = 2, 3, ...) ends with candidate n - 1; all keep
\* the first k - 1 items, the selections from the second on differ from each
\* other when k >= 1, and no more than two or (distinct remaining items
\* - k + 2) selections are judged, whichever is larger.
C16_RetryOrder ==
    InSelection =>
        /\ \A m \in 1..Len(Evaluations) :
              Evaluations[m] = SelectionAt(IF m <= 2 THEN 0 ELSE m - 2)
        /\ r_sel.split[1] >= 1 =>
              /\ \A m1, m2 \in 2..Len(Evaluations) :
                    m1 # m2 => Evaluations[m1] # Evaluations[m2]
              /\ Len(Evaluations) <= 2
                    \/ Len(Evaluations) <=
                          SelectionCandidates.cnt_different_items_remaining
                              - r_sel.split[1] + 2
        /\ r_sel.split[1] = 0 => Len(Evaluations) <= 2

\* two key items were to be selected, the selection with candidate 0 was
\* rejected twice and the one with candidate 1 was judged after it
C16_Witness ==
    /\ r_pc = "place"
    /\ r_sel.split[1] >= 2
    /\ Len(r_sel.evaluated) >= 3
    /\ r_sel.evaluated[1] = r_sel.evaluated[2]
    /\ r_sel.evaluated[3] # r_sel.evaluated[2]
    /\ SubSeq(r_sel.evaluated[3], 1, r_sel.split[1] - 1)
          = SubSeq(r_sel.evaluated[1], 1, r_sel.split[1] - 1)

(***************************************************************************)
(* Exhaustion of the key item candidates.                                  *)
(***************************************************************************)
ExhaustedNow == r_pc = "attempt" /\ r_pc' = "place" /\ r_sel'.exhausted

\* the step that follows the exhaustion: nothing fails, and the selection
\* that is returned is the last rejected one, or k times Nothing under
\* stop-early
ExhaustionReturns ==
    ExhaustedNow =>
        /\ r_result' = r_result
        /\ Len(r_sel'.key_items) = r_sel.split[1]
        /\ r_sel'.key_items =
              IF StopEarly THEN Repeat("Nothing", r_sel.split[1]) ELSE r_sel.key_items

\* a step with an exhausted selection placed the selection it returned
ExhaustedStepPlaced ==
    (r_pc = "check" /\ r_step.exhausted) =>
        /\ r_step.key_items =
              IF StopEarly THEN Repeat("Nothing", r_step.split[1])
              ELSE r_step.evaluated[Len(r_step.evaluated)]
        /\ \A j \in 1..Len(r_step.key_items) :
              r_state.item_location_state[r_step.all_locations[j]].placed_item
                  = r_step.key_items[j]

\* C17 as stated: without stop-early an attempt with an exhausted selection
\* does not return success; with stop-early the k key items become Nothing.
C17_ExhaustionFails ==
    /\ (~StopEarly /\ r_pc \in {"finish", "finished", "done"}) => r_hist.exhausted = {}
    /\ (StopEarly /\ r_pc = "check" /\ r_step.exhausted) =>
          r_step.key_items = Repeat("Nothing", r_step.split[1])

\* C17: when every candidate has been rejected the selection loop returns
\* without failing; with stop-early off it returns the last rejected
\* selection, with stop-early on k times Nothing; the step places what was
\* returned and the attempt goes on.
C17_ExhaustionGoesOn == [][ExhaustionReturns]_vars /\ []ExhaustedStepPlaced

\* a successful run without stop-early one of whose steps exhausted its
\* candidates
C17_Witness ==
    /\ r_pc = "done"
    /\ ~StopEarly
    /\ r_result.tag = "Ok"
    /\ r_hist.exhausted # {}

(***************************************************************************)
(* What provides_progression answers for the selection being judged.       *)
(***************************************************************************)
\* bireachable in the new state and not even reachable in the old state
NewlyBireachable(new_locs) ==
    { i \in 1..Len(new_locs) :
        new_locs[i].bireachable /\ ~r_state.item_location_state[i].reachable }

\* reachable in the new state without a way back
OneWayReachable(new_locs) ==
    { i \in 1..Len(new_locs) : new_locs[i].reachable /\ ~new_locs[i].bireachable }

AllBireachable(new_locs) == \A i \in 1..Len(new_locs) : new_locs[i].bireachable

\* C18 as stated: true exactly when (a location is newly bireachable and
\* fewer than 20 are one-way reachable) or the game is beatable.
C18_ExpansionOrBeatable ==
    r_pc = "attempt" =>
        LET j == Judged
            new_locs == j.state.item_location_state
        IN  j.ok <=> \/ /\ NewlyBireachable(new_locs) # {}
                        /\ Cardinality(OneWayReachable(new_locs)) < 20
                     \/ IsGameBeatable(W, j.state)

\* C18: provides_progression answers true exactly when ((a location that was
\* not even one-way reachable in the old state is bireachable in the new
\* state, or every item location is bireachable in the new state) and fewer
\* than 20 item locations are one-way reachable in the new state) or the
\* game is beatable in the new state.
C18_ProvidesProgression ==
    r_pc = "attempt" =>
        LET j == Judged
            new_locs == j.state.item_location_state
        IN  j.ok <=> \/ /\ NewlyBireachable(new_locs) # {} \/ AllBireachable(new_locs)
                        /\ Cardinality(OneWayReachable(new_locs)) < 20
                     \/ IsGameBeatable(W, j.state)

\* a selection is accepted only because every item location is bireachable
C18_Witness ==
    /\ r_pc = "attempt"
    /\ LET j == Judged
           new_locs == j.state.item_location_state
       IN  /\ j.ok
           /\ AllBireachable(new_locs)
           /\ NewlyBireachable(new_locs) = {}
           /\ ~IsGameBeatable(W, j.state)

(***************************************************************************)
(* finish under stop_item_placement_early.                                 *)
(***************************************************************************)
FinishesEarly == r_pc = "finish" /\ r_pc' = "finished" /\ StopEarly

FinishLocs == 1..Len(r_state.item_location_state)

\* C19 as stated: finish sets exactly the empty locations to Nothing and
\* leaves the placed item of every other location unchanged.
C19_OnlyEmptyLocations ==
    [][FinishesEarly =>
          \A i \in FinishLocs :
              r_state'.item_location_state[i].placed_item =
                  IF r_state.item_location_state[i].placed_item = NoItem
                  THEN "Nothing"
                  ELSE r_state.item_location_state[i].placed_item]_vars

\* C19: with stop_item_placement_early on, finish sets to Nothing exactly the
\* item locations that have no placed item or are not bireachable, whatever
\* item was placed there, and changes nothing else: the placed item of a
\* bireachable location with an item, the other fields of every location and
\* items_remaining stay as they were.
C19_EmptyOrNotBireachable ==
    [][FinishesEarly =>
          /\ \A i \in FinishLocs :
                LET before == r_state.item_location_state[i]
                IN  r_state'.item_location_state[i] =
                        IF before.placed_item = NoItem \/ ~before.bireachable
                        THEN [before EXCEPT !.placed_item = "Nothing"]
                        ELSE before
          /\ r_state'.items_remaining = r_state.items_remaining
          /\ r_state'.global_state = r_state.global_state]_vars

\* finish under stop-early has filled an empty location, taken back an item
\* other than Nothing from a location that is not bireachable, and left an
\* item at a bireachable location
C19_Witness ==
    /\ r_pc = "finished"
    /\ StopEarly
    /\ \E k \in HistIdx : r_hist.placed[k].src = "finish"
          /\ ~\E j \in HistIdx : j # k /\ r_hist.placed[j].loc = r_hist.placed[k].loc
    /\ \E k, j \in HistIdx :
          /\ r_hist.placed[k].src = "finish"
          /\ r_hist.placed[j].src # "finish"
          /\ r_hist.placed[j].loc = r_hist.placed[k].loc
          /\ r_hist.placed[j].item # "Nothing"
          /\ ~r_state.item_location_state[r_hist.placed[k].loc].bireachable
    /\ \E i \in FinishLocs :
          /\ r_state.item_location_state[i].bireachable
          /\ r_state.item_location_state[i].placed_item \notin {NoItem, "Nothing"}

(***************************************************************************)
(* The flag and door closure at the start of a step.                       *)
(***************************************************************************)
\* the unset flags that st would set and the locked doors it would unlock
Settable(st) ==
    { W.flag_ids[i] : i \in { j \in 1..Len(W.flag_ids) :
          /\ W.flag_ids[j] \notin st.global_state.flags
          /\ \/ st.flag_location_state[j].bireachable
             \/ (W.flag_ids[j] = MotherBrain /\ st.flag_location_state[j].reachable) } }
    \cup { i \in 1..Len(W.door_req) :
             i \notin st.global_state.doors_unlocked /\ st.door_state[i].bireachable }

\* C20: when the closure loop of a step has ended it has run at most
\* (flags + locked doors + 1) passes, in fact at most one more than the
\* number of flags and doors it set, and nothing is left to set: no unset
\* flag has a bireachable location (a reachable one for Mother Brain) and no
\* locked door a bireachable unlock vertex, both in the state it leaves and
\* in the reachability computed afresh from its global state.
C20_ClosureFixedPoint ==
    r_pc = "closed" =>
        /\ r_step.passes <= Len(W.flag_ids) + Len(W.door_req) + 1
        /\ r_step.passes <= Len(r_step.flags) + Len(r_step.doors) + 1
        /\ Settable(r_state) = {}
        /\ Settable(UpdateReachability(W, r_state)) = {}
        /\ SeqRange(r_step.flags) \subseteq r_state.global_state.flags
        /\ SeqRange(r_step.doors) \subseteq r_state.global_state.doors_unlocked

\* a closure of three passes that set a flag and unlocked a door and left a
\* door locked
C20_Witness ==
    /\ r_pc = "closed"
    /\ r_step.passes >= 3
    /\ r_step.flags # <<>>
    /\ r_step.doors # <<>>
    /\ \E i \in 1..Len(W.door_req) : i \notin r_state.global_state.doors_unlocked

(***************************************************************************)
(* Where flags are set and doors unlocked.                                 *)
(***************************************************************************)
\* the states that the passes of the closure loop read, the first being st
\* and the last the one whose pass sets nothing
RECURSIVE ClosureStates(_, _)
ClosureStates(w, st) ==
    LET pass == ClosurePass(w, st)
    IN  IF pass.flags = <<>> /\ pass.doors = <<>>
        THEN << st >>
        ELSE << st >> \o ClosureStates(w,
                UpdateReachability(w,
                    [st EXCEPT !.global_state.flags = @ \cup SeqRange(pass.flags),
                               !.global_state.doors_unlocked = @ \cup SeqRange(pass.doors)]))

FlagIndex(flag_id) == CHOOSE i \in 1..Len(W.flag_ids) : W.flag_ids[i] = flag_id

\* what was set between two states had the reachability for it in the first
SetWithRoundTrip(before, after) ==
    /\ \A f \in after.global_state.flags \ before.global_state.flags :
          /\ f \in SeqRange(W.flag_ids)
          /\ IF f = MotherBrain
             THEN before.flag_location_state[FlagIndex(f)].reachable
             ELSE before.flag_location_state[FlagIndex(f)].bireachable
    /\ \A d \in after.global_state.doors_unlocked \ before.global_state.doors_unlocked :
          before.door_state[d].bireachable

\* a step of the attempt other than the closure leaves flags and doors alone
FlagsKept ==
    (HasState /\ HasState' /\ r_run' = r_run /\ ~(r_pc = "loop" /\ r_pc' = "closed")) =>
        /\ r_state'.global_state.flags = r_state.global_state.flags
        /\ r_state'.global_state.doors_unlocked = r_state.global_state.doors_unlocked

\* C21: the initial global state holds the flags of get_initial_flag_vec and
\* no unlocked door; afterwards flags and doors change only in the closure
\* loop, where a flag other than the Mother Brain flag is set only if its
\* location is bireachable, the Mother Brain flag only if its location is
\* reachable, and a door is unlocked only if its vertex is bireachable, all
\* in the reachability state that the pass reads.
C21_FlagsNeedRoundTrip ==
    /\ [][FlagsKept]_vars
    /\ [](r_pc = "closed" =>
            LET states == ClosureStates(W, r_step.before)
            IN  /\ states[Len(states)].global_state = r_state.global_state
                /\ \A k \in 1..(Len(states) - 1) :
                      SetWithRoundTrip(states[k], states[k + 1]))
    /\ [](r_pc = "loop" /\ r_state.step_num = 1 =>
            /\ r_state.global_state.doors_unlocked = {}
            /\ r_state.global_state.flags
                  = GetInitialFlagVec(r_cfg.difficulty))

\* a closure set the Mother Brain flag while its location had no round trip,
\* set another flag and unlocked a door
C21_Witness ==
    /\ r_pc = "closed"
    /\ r_step.doors # <<>>
    /\ \E f \in SeqRange(r_step.flags) : f # MotherBrain
    /\ MotherBrain \in SeqRange(r_step.flags)
    /\ ~r_state.flag_location_state[FlagIndex(MotherBrain)].bireachable

(***************************************************************************)
(* Termination of the step loop.                                           *)
(***************************************************************************)
InLoop == r_pc \in {"loop", "closed", "attempt", "place", "check", "finish"}

\* the collected locations that hold an item other than Nothing
CollectedItemLocs(st) ==
    { i \in 1..Len(st.item_location_state) :
        /\ st.item_location_state[i].collected
        /\ st.item_location_state[i].placed_item \notin {NoItem, "Nothing"} }

\* the flags of the game that are set
SetFlags(st) == st.global_state.flags \cap SeqRange(W.flag_ids)

Progress(st) == Cardinality(CollectedItemLocs(st)) + Cardinality(SetFlags(st))

\* C22: a step after which the loop goes on has newly collected a location
\* with an item other than Nothing or newly set a flag; collected locations
\* and set flags are never taken back inside the loop, so the number of the
\* step is at most one more than their count, which is at most the number of
\* item locations plus the number of flags.
C22_StepLoopTerminates ==
    /\ [][(r_pc = "check" /\ r_pc' = "loop") =>
              \/ CollectedItemLocs(r_state) \ CollectedItemLocs(r_step.before) # {}
              \/ SetFlags(r_state) \ SetFlags(r_step.before) # {}]_vars
    /\ [][(InLoop /\ InLoop') =>
              /\ CollectedItemLocs(r_state) \subseteq CollectedItemLocs(r_state')
              /\ SetFlags(r_state) \subseteq SetFlags(r_state')]_vars
    /\ [](InLoop =>
            /\ r_state.step_num <= Progress(r_state) + 1
            /\ Progress(r_state) <= W.num_locs + Len(W.flag_ids)
            /\ Len(r_summaries) <= W.num_locs + Len(W.flag_ids) + 1)

\* the loop was left at its fifth step or later, by a step without progress
\* that unlocked nothing new
C22_Witness ==
    /\ r_pc = "finish"
    /\ ~r_step.is_early_stop
    /\ r_state.step_num >= 5
    /\ Len(r_summaries) = r_state.step_num
    /\ Progress(r_state) = Progress(r_step.before)

(***************************************************************************)
(* SpecSplit: determine_item_split over pools in which u unique items are  *)
(* untouched, the other unique items are placed, r of the Missiles are     *)
(* left and WallJump is either placed or has no copy in the pool.          *)
(***************************************************************************)
MaxSplitKeys == 13

MaxSplitBulk == 10

MaxSplitBireachable == 11

MaxSplitOneway == 2

SplitKeyNames ==
    SelectSeq(ItemNames, LAMBDA i : i \notin {"Missile", "WallJump", "Nothing"})

SplitPrecedence == SplitKeyNames \o << "Missile", "WallJump" >>

\* initial_items_remaining of the pool
SplitInitial(no_walljump) ==
    [i \in Items |->
        CASE i = "Missile" -> MaxSplitBulk + 1
          [] i = "WallJump" -> IF no_walljump THEN 0 ELSE 1
          [] i = "Nothing" -> 0
          [] OTHER -> 1]

\* the part of a RandomizationState that determine_item_split reads
SplitState(u, r) ==
    [item_precedence |-> SplitPrecedence,
     items_remaining |->
        [i \in Items |->
            CASE i = "Missile" -> r
              [] i \in { SplitKeyNames[k] : k \in 1..u } -> 1
              [] OTHER -> 0]]

SplitInit ==
    /\ DoorsIdle
    /\ RandIdle
    /\ n_pc = "split"
    /\ n_cfg \in [u : 0..MaxSplitKeys, r : 0..MaxSplitBulk,
                  num_bireachable : 0..MaxSplitBireachable,
                  num_oneway_reachable : 0..MaxSplitOneway,
                  no_walljump : BOOLEAN,
                  progression_rate : {"Slow", "Uniform", "Fast"},
                  stop_item_placement_early : BOOLEAN]
    /\ n_out = <<>>

SplitDetermine ==
    /\ n_pc = "split"
    /\ n_pc' = "split_done"
    /\ n_out' = DetermineItemSplit(n_cfg, SplitInitial(n_cfg.no_walljump),
                                   SplitState(n_cfg.u, n_cfg.r),
                                   n_cfg.num_bireachable, n_cfg.num_oneway_reachable)
    /\ UNCHANGED n_cfg
    /\ UNCHANGED <<doorVars, randVars>>

SplitNext == SplitDetermine

SpecSplit == SplitInit /\ [][SplitNext]_vars

\* key_remaining: the untouched unique items, and WallJump when the pool has
\* no copy of it
SplitKeyRemaining == n_cfg.u + (IF n_cfg.no_walljump THEN 1 ELSE 0)

SplitTotalRemaining == n_cfg.u + n_cfg.r

SplitToPlace == n_cfg.num_bireachable + n_cfg.num_oneway_reachable

\* a * c / b is an integer plus one half
IsHalf(a, b, c) == (2 * a * c) % b = 0 /\ ((2 * a * c) \div b) % 2 = 1

\* the values that round(a / b * c) may take: the nearest integer, and at a
\* half either neighbour, since the f32 product can fall short of the half
Rounded(a, b, c) ==
    IF b = 0 THEN (IF a * c = 0 THEN {0} ELSE {UsizeMax})
    ELSE IF IsHalf(a, b, c)
         THEN {(a * c) \div b, (a * c) \div b + 1}
         ELSE {(2 * a * c + b) \div (2 * b)}

\* k for a rounded value x, with or without the override at the end
SplitKey(x, override) ==
    LET by_rate == IF n_cfg.progression_rate = "Slow" THEN 1 ELSE Max(1, x)
        wanted == IF override /\ SplitTotalRemaining < SplitToPlace + 20
                  THEN SplitKeyRemaining ELSE by_rate
    IN  Min(wanted, Min(n_cfg.num_bireachable, SplitKeyRemaining))

SplitFactor == IF n_cfg.progression_rate = "Fast" THEN 2 ELSE 1

\* C23 as stated: the exact rounding, the override in every setting, and a
\* result of at least 1.
C23_SplitAsStated ==
    n_pc = "split_done" =>
        LET a == SplitFactor * SplitKeyRemaining
            x == IF SplitTotalRemaining = 0 THEN 0
                 ELSE (2 * a * SplitToPlace + SplitTotalRemaining)
                          \div (2 * SplitTotalRemaining)
        IN  /\ n_out[1] = Max(1, SplitKey(x, TRUE))
            /\ n_out[2] = SplitToPlace - n_out[1]

\* C23: determine_item_split returns (k, f) with f = B + O - k and
\* k = min(x, B, key_remaining), where x is key_remaining if
\* stop_item_placement_early is off and total_remaining < (B + O) + 20, and
\* otherwise 1 under Slow, max(1, round(key_remaining / total_remaining x
\* (B + O))) under Uniform and max(1, round(2 x key_remaining /
\* total_remaining x (B + O))) under Fast; the rounding is that of f32, which
\* at an exact half may go either way; k is 0 when B or key_remaining is 0;
\* key_remaining counts the items of item_precedence whose remaining count
\* equals their initial count, those without a copy in the pool included.
C23_ItemSplit ==
    n_pc = "split_done" =>
        /\ \E x \in Rounded(SplitFactor * SplitKeyRemaining, SplitTotalRemaining,
                            SplitToPlace) :
              n_out[1] = SplitKey(x, ~n_cfg.stop_item_placement_early)
        /\ n_out[2] = SplitToPlace - n_out[1]
        /\ n_out[1] <= n_cfg.num_bireachable

\* 13 items untouched, 22 left and 11 locations under Uniform with stop-early
\* on: the half of 6.5 is rounded down, and no override replaces the 6
C23_Witness ==
    /\ n_pc = "split_done"
    /\ n_cfg.progression_rate = "Uniform"
    /\ n_cfg.stop_item_placement_early
    /\ SplitTotalRemaining > 0
    /\ SplitTotalRemaining < SplitToPlace + 20
    /\ IsHalf(SplitKeyRemaining, SplitTotalRemaining, SplitToPlace)
    /\ n_out[1] = (SplitKeyRemaining * SplitToPlace) \div SplitTotalRemaining
    /\ n_out[1] < n_cfg.num_bireachable
    /\ n_out[1] < SplitKeyRemaining

(***************************************************************************)
(* Spazer and Plasma.                                                      *)
(***************************************************************************)
\* the steps at which the loop placed an item
PlacedAt(item) ==
    { r_hist.placed[k].step : k \in { j \in HistIdx :
          r_hist.placed[j].item = item /\ r_hist.placed[j].src # "finish" } }

BothInPool ==
    r_cfg.initial_items_remaining["Spazer"] > 0 /\ r_cfg.initial_items_remaining["Plasma"] > 0

\* C24: with spazer_before_plasma set and both items in the pool, at every
\* step that places Plasma, Spazer is placed at the same step or was placed
\* at an earlier one.
C24_SpazerBeforePlasma ==
    (HasState /\ r_cfg.difficulty.spazer_before_plasma /\ BothInPool) =>
        \A p \in PlacedAt("Plasma") : \E q \in PlacedAt("Spazer") : q <= p

(***************************************************************************)
(* Forced mode: the hardest location.                                      *)
(***************************************************************************)
\* lines 3213-3219: the forced-mode loop of place_items ran at the step that
\* was just placed
HardPlaced ==
    /\ r_pc = "check"
    /\ ~r_step.is_early_stop
    /\ r_cfg.num_tiers > 1
    /\ ~(/\ ~r_cfg.difficulty.stop_item_placement_early
         /\ SumVec(r_step.closed.items_remaining)
               < Len(r_step.key_items) + Len(r_step.other_items)
                    + KEY_ITEM_FINISH_THRESHOLD)

\* new_bireachable_locations when key item i is placed: the swaps of the
\* earlier key items replayed on the bireachable locations of the step
RECURSIVE CandidatesAt(_)
CandidatesAt(i) ==
    IF i = 1 THEN r_step.unplaced_bireachable
    ELSE LET prev == CandidatesAt(i - 1)
         IN  Swap(prev, i - 1, Position(prev, r_step.all_locations[i - 1]))

\* new_bireachable_locations[i..]
RemainingAt(i) == SubSeq(CandidatesAt(i), i, Len(r_step.unplaced_bireachable))

\* the state find_hard_location is given for key item i: new_state, with the
\* hard locations chosen so far, when several key items are placed
HardStateAt(i) ==
    IF Len(r_step.key_items) > 1
    THEN [r_state EXCEPT !.key_visited_vertices =
             r_step.closed.key_visited_vertices
                \cup { r_step.all_locations[j] : j \in 1..(i - 1) }]
    ELSE r_step.closed

\* the positions of the remaining candidates that the traversal of a tier
\* does not reach
UnreachableAt(tier, i) ==
    { k \in 1..Len(RemainingAt(i)) :
        ~TierReachable(W, tier, HardStateAt(i), RemainingAt(i)[k],
                       r_step.closed.previous_debug_data) }

RecordedTier(i) == r_state.item_location_state[r_step.all_locations[i]].difficulty_tier

HardestChosen(i) ==
    LET t == RecordedTier(i)
        loc == r_step.all_locations[i]
    IN  IF \A tier \in 1..(r_cfg.num_tiers - 1) : UnreachableAt(tier, i) = {}
        THEN t = r_cfg.num_tiers - 1 /\ loc = RemainingAt(i)[1]
        ELSE /\ t \in 0..(r_cfg.num_tiers - 2)
             /\ \A tier \in 1..t : UnreachableAt(tier, i) = {}
             /\ UnreachableAt(t + 1, i) # {}
             /\ \E k \in UnreachableAt(t + 1, i) :
                   /\ loc = RemainingAt(i)[k]
                   /\ \A h \in UnreachableAt(t + 1, i) : k <= h

\* C25: in forced mode, when hard placement is not skipped, the location of
\* each key item is the first remaining bireachable candidate that is out of
\* reach at the lowest weaker tier at which any remaining candidate is out of
\* reach, and its recorded difficulty_tier is that tier minus one; when every
\* candidate is in reach at every tier, the first candidate is taken and the
\* tier is the number of tiers minus one.
C25_HardestLocation ==
    HardPlaced => \A i \in 1..Len(r_step.key_items) : HardestChosen(i)

C25_Witness ==
    /\ HardPlaced
    /\ r_cfg.num_tiers = 3
    /\ Len(r_step.key_items) >= 2
    /\ \E i \in 1..Len(r_step.key_items) :
          /\ RecordedTier(i) = 1
          /\ r_step.all_locations[i] # RemainingAt(i)[1]
    /\ \E i \in 1..Len(r_step.key_items) : RecordedTier(i) = 2

(***************************************************************************)
(* Collected items and collected locations.                                *)
(***************************************************************************)
\* the locations whose collected marker the step turned on
NewlyCollected ==
    { loc \in 1..Len(r_state.item_location_state) :
        /\ r_state.item_location_state[loc].collected
        /\ ~r_step.closed.item_location_state[loc].collected }

\* how often an item occurs among the items the step collected into
\* global_state
TimesCollected(item) ==
    Cardinality({ k \in 1..Len(r_step.collected) : r_step.collected[k] = item })

\* how often an item is placed at the newly collected locations
TimesAtCollected(item) ==
    Cardinality({ loc \in NewlyCollected :
                    r_state.item_location_state[loc].placed_item = item })

\* the step reordered the bireachable locations
Reordered ==
    SubSeq(r_step.all_locations, 1, Len(r_step.unplaced_bireachable))
        # r_step.unplaced_bireachable

\* C26: after every step that is not an early stop, the items collected into
\* global_state during the step are, as a multiset, the items placed at the
\* locations the step newly marks collected: the placed locations that are
\* now bireachable and the locations that were unplaced and bireachable.
C26_CollectedMatchesLocations ==
    (r_pc = "check" /\ ~r_step.is_early_stop) =>
        /\ NewlyCollected = SeqRange(r_step.placed_uncollected_bireachable_loc)
                               \cup SeqRange(r_step.unplaced_bireachable)
        /\ \A loc \in NewlyCollected :
              r_state.item_location_state[loc].placed_item # NoItem
        /\ \A item \in SeqRange(r_step.collected)
                          \cup { r_state.item_location_state[loc].placed_item :
                                    loc \in NewlyCollected } :
              TimesCollected(item) = TimesAtCollected(item)

C26_Witness ==
    /\ HardPlaced
    /\ Reordered
    /\ r_step.exhausted
    /\ r_step.unplaced_oneway_reachable # <<>>
    /\ Len(r_step.key_items) >= 1

(***************************************************************************)
(* The initial pool.                                                       *)
(***************************************************************************)
\* C28: for every item_pool and starting_items configuration Randomizer::new
\* completes without unsigned underflow and yields initial_items_remaining
\* whose total is exactly the number of item locations.
C28_InitialPoolCapped ==
    n_pc = "done" =>
        /\ n_out.status = "ok"
        /\ SumVec(n_out.remaining) = n_cfg.num_locs

(***************************************************************************)
(* SpecPools: randomize over the runs of Spec and over runs whose          *)
(* item_pool names Nothing, so that Randomizer::new leaves fewer items     *)
(* than there are item locations.                                          *)
(***************************************************************************)
ItemPoolWithNothing == Append(ItemPool, << "Nothing", 20 >>)

PoolRandomizer(game, profile, progression_rate, stop_early) ==
    LET r == Randomizer(game, profile, progression_rate, stop_early, "Moderate", 0)
    IN  [r EXCEPT !.difficulty.item_pool = ItemPoolWithNothing,
                  !.initial_items_remaining =
                      NewItemsRemaining(Games(game).num_locs, r.difficulty.wall_jump,
                                        r.difficulty.ridley_proficiency,
                                        ItemPoolWithNothing,
                                        r.difficulty.starting_items).remaining]

PoolRandomizers ==
    { PoolRandomizer("Open", profile, rate, stop_early) :
        profile \in Profiles, rate \in {"Slow", "Uniform", "Fast"},
        stop_early \in BOOLEAN }

PoolsInit ==
    /\ NewIdle
    /\ DoorsIdle
    /\ r_pc = "init"
    /\ r_cfg \in Randomizers \cup PoolRandomizers
    /\ r_rng = 0
    /\ r_state = <<>>
    /\ r_step = NoStep
    /\ r_summaries = <<>>
    /\ r_sel = <<>>
    /\ r_hist = NoHist
    /\ r_result = <<>>
    /\ r_run = 1
    /\ r_first = <<>>

SpecPools == PoolsInit /\ [][Next]_vars

\* a selection or the placement of a step failed
SelectionPanic ==
    /\ r_pc = "panic"
    /\ r_result.value \in {"multi_attempt_select_items", "place_items"}

\* every item with a non-zero initial count appears in item_precedence
PrecedenceCoversPool ==
    \A item \in Items :
        r_cfg.initial_items_remaining[item] > 0
            => item \in SeqRange(r_state.item_precedence)

\* the selection of the step as multi_attempt_select_items returned it
SelectionFits ==
    /\ Len(r_sel.other_items) = r_sel.split[2]
    /\ Len(r_sel.key_items) = r_sel.split[1]
    /\ Len(r_sel.key_items) + Len(r_sel.other_items)
          = Len(r_sel.unplaced_bireachable) + Len(r_sel.unplaced_oneway_reachable)

MaxEntranceTiles == 20
MaxExitTiles == 30

\* compute_run_frames: the frames to run over a number of tiles, rounded up
ComputeRunFrames(tiles) ==
    IF tiles <= 7 THEN 9 + 4 * tiles
    ELSE IF tiles <= 16 THEN 15 + 3 * tiles
    ELSE IF tiles <= 42 THEN 32 + 2 * tiles
    ELSE (47 * 39 + 64 * tiles + 38) \div 39

\* compute_shinecharge_frames: the frames spent on the other runway and the
\* frames spent on this runway.  On a combined runway of at most 31.3 tiles
\* the charge takes 85 frames at constant acceleration from speed 1/8; the
\* frames on the other runway are the least n with
\* n/8 + (combined - 85/8) * n^2 / 85^2 >= other_runway_length
ComputeShinechargeFrames(other_runway_length, runway_length) ==
    LET combined_length == other_runway_length + runway_length
    IN  IF combined_length >= 32
        THEN LET total_time == ComputeRunFrames(combined_length)
                 other_time == ComputeRunFrames(other_runway_length)
             IN  << other_time, total_time - other_time >>
        ELSE LET other_time ==
                     CHOOSE n \in 0..85 :
                        /\ 7225 * n + (8 * combined_length - 85) * n * n
                              >= 57800 * other_runway_length
                        /\ \A m \in 0..(n - 1) :
                              7225 * m + (8 * combined_length - 85) * m * m
                                  < 57800 * other_runway_length
             IN  << other_time, 85 - other_time >>

MinOf(a, b) == IF a <= b THEN a ELSE b
MaxOf(a, b) == IF a >= b THEN a ELSE b

\* get_cross_room_shortcharge_heat_frames
GetCrossRoomShortchargeHeatFrames(from_exit_node, entrance_length, exit_length, entrance_heated, exit_heated) ==
    LET other_runway_length == MaxOf(0, MinOf(exit_length, 33 - entrance_length))
    IN  IF from_exit_node
        THEN IF entrance_heated /\ exit_heated
             THEN ComputeRunFrames(other_runway_length) + 20
                     + MaxOf(85, ComputeRunFrames(other_runway_length + entrance_length))
                     + 5
             ELSE IF ~entrance_heated /\ exit_heated
             THEN ComputeShinechargeFrames(exit_length, entrance_length)[2] + 5
             ELSE IF entrance_heated /\ ~exit_heated
             THEN ComputeRunFrames(other_runway_length) + 20
                     + ComputeShinechargeFrames(other_runway_length, entrance_length)[1]
                     + 5
             ELSE 0
        ELSE IF entrance_heated \/ exit_heated
        THEN 5 + (IF exit_heated
                  THEN ComputeShinechargeFrames(exit_length, entrance_length)[1] ELSE 0)
               + (IF entrance_heated
                  THEN ComputeShinechargeFrames(exit_length, entrance_length)[2] ELSE 0)
        ELSE 0

\* lines 1159-1168: the HeatFrames requirement that an entrance condition with
\* a runway adds for a LeaveWithRunway exit condition; -1 when it adds none
ComeInHeatFrames(exit_condition, runway_length, runway_heated) ==
    IF exit_condition.heated \/ runway_heated
    THEN GetCrossRoomShortchargeHeatFrames(exit_condition.from_exit_node, runway_length,
                                           exit_condition.effective_length,
                                           runway_heated, exit_condition.heated)
    ELSE -1

HeatInit ==
    /\ DoorsIdle
    /\ RandIdle
    /\ n_pc = "heat"
    /\ n_cfg \in [exit_condition : [effective_length : 0..MaxExitTiles,
                                    heated : BOOLEAN,
                                    from_exit_node : BOOLEAN],
                  runway_length : 1..MaxEntranceTiles,
                  runway_heated : BOOLEAN]
    /\ n_out = -1

HeatCompute ==
    /\ n_pc = "heat"
    /\ n_pc' = "heat_done"
    /\ n_out' = ComeInHeatFrames(n_cfg.exit_condition, n_cfg.runway_length,
                                 n_cfg.runway_heated)
    /\ UNCHANGED n_cfg
    /\ UNCHANGED <<doorVars, randVars>>

HeatNext == HeatCompute

SpecHeat == HeatInit /\ [][HeatNext]_vars

\* the source runway that is used when the runway of the exit room starts
\* and ends at the door
UsedSourceRunway ==
    MaxOf(0, MinOf(n_cfg.exit_condition.effective_length, 33 - n_cfg.runway_length))

\* C29: with from_exit_node, when only the exit-side (source) room is heated
\* the heat frames are the frames spent in the source room (the run-out over
\* the used source runway, 20 frames to turn around and the source-room share
\* of the charge) plus 5; when only the entrance-side (destination) room is
\* heated they are the destination-room share of the charge plus 5.
C29_HeatChargedToHeatedSide ==
    (n_pc = "heat_done" /\ n_cfg.exit_condition.from_exit_node) =>
        /\ (n_cfg.exit_condition.heated /\ ~n_cfg.runway_heated) =>
              n_out = ComputeRunFrames(UsedSourceRunway) + 20
                         + ComputeShinechargeFrames(UsedSourceRunway,
                                                    n_cfg.runway_length)[1]
                         + 5
        /\ (~n_cfg.exit_condition.heated /\ n_cfg.runway_heated) =>
              n_out = ComputeShinechargeFrames(n_cfg.exit_condition.effective_length,
                                               n_cfg.runway_length)[2] + 5

(***************************************************************************)
(* Run-speed requirements of the entrance conditions.  A requirement is    *)
(* the set of its conjuncts; the conjuncts are named without their         *)
(* payloads.  The speed windows of a shortcharge                           *)
(* (get_shortcharge_min_extra_run_speed and                                *)
(* get_shortcharge_max_extra_run_speed, for shine_charge_tiles and for     *)
(* heated_shine_charge_tiles) are inputs; -1 stands for None.              *)
(***************************************************************************)
\* add_run_speed_reqs: whether the speed windows meet, and what is pushed
AddRunSpeedReqs(exit_min_extra_run_speed, exit_max_extra_run_speed, exit_heated, entrance_min_extra_run_speed, entrance_max_extra_run_speed, sc) ==
    LET exit_min_speed == MaxOf(entrance_min_extra_run_speed, sc.min_speed)
        exit_max_speed == MinOf(entrance_max_extra_run_speed, sc.max_speed)
        overall_min_speed == MaxOf(exit_min_speed, exit_min_extra_run_speed)
        overall_max_speed == MinOf(exit_max_speed, exit_max_extra_run_speed)
        heated_min_speed == MaxOf(entrance_min_extra_run_speed, sc.heated_min_speed)
        heated_max_speed == MinOf(entrance_max_extra_run_speed, sc.heated_max_speed)
        heated_overall_min == MaxOf(heated_min_speed, exit_min_extra_run_speed)
        heated_overall_max == MinOf(heated_max_speed, exit_max_extra_run_speed)
    IN  IF overall_min_speed > overall_max_speed
        THEN [ok |-> FALSE, reqs |-> {}]
        ELSE [ok |-> TRUE,
              reqs |-> IF exit_heated /\ heated_overall_min > heated_overall_max
                       THEN {"Varia"} ELSE {}]

NoReqs == [tag |-> "None", reqs |-> {}, pushed |-> {}]

SomeReqs(reqs, pushed) == [tag |-> "Some", reqs |-> reqs, pushed |-> pushed]

GravityReq(x) == IF x.physics # "Air" THEN {"Gravity"} ELSE {}

\* get_come_in_getting_blue_speed_reqs
GetComeInGettingBlueSpeedReqs(x, e, sc) ==
    IF x.kind = "LeaveWithRunway"
    THEN IF x.length < e.min_tiles THEN NoReqs
         ELSE LET speed == AddRunSpeedReqs(0, 7, x.heated \/ e.runway_heated,
                                           e.min_extra_run_speed, e.max_extra_run_speed, sc)
              IN  IF ~speed.ok THEN NoReqs
                  ELSE SomeReqs(speed.reqs \cup {"BlueSpeed"} \cup GravityReq(x)
                                   \cup (IF x.heated \/ e.runway_heated
                                         THEN {"HeatFrames"} ELSE {}),
                                speed.reqs)
    ELSE NoReqs

\* get_come_in_blue_spinning_reqs
GetComeInBlueSpinningReqs(x, e, sc) ==
    IF x.kind = "LeaveSpinning"
    THEN LET speed == AddRunSpeedReqs(x.min_extra_run_speed, x.max_extra_run_speed,
                                      x.heated, e.min_extra_run_speed,
                                      e.max_extra_run_speed, sc)
         IN  IF ~speed.ok THEN NoReqs
             ELSE IF x.blue = "No" THEN NoReqs
             ELSE \* lines 1332-1335: the shinecharge requirement alone is returned
                  SomeReqs({"Shinecharge"}, speed.reqs)
    ELSE IF x.kind = "LeaveWithRunway"
    THEN LET speed == AddRunSpeedReqs(0, 7, x.heated, e.min_extra_run_speed,
                                      e.max_extra_run_speed, sc)
         IN  IF ~speed.ok THEN NoReqs
             ELSE SomeReqs(speed.reqs \cup {"Shinecharge"} \cup GravityReq(x)
                              \cup (IF x.heated THEN {"HeatFrames"} ELSE {}),
                           speed.reqs)
    ELSE NoReqs

BounceReqs == {"canSpringBallBounce", "SpeedBooster", "Morph", "SpringBall"}

\* get_come_in_with_blue_spring_ball_bounce_reqs
GetComeInWithBlueSpringBallBounceReqs(x, e, sc) ==
    IF x.kind = "LeaveWithMockball"
    THEN IF \/ x.blue = "Yes"
            \/ e.movement_type = "Uncontrolled"
            \/ x.length < e.min_tiles
         THEN NoReqs
         ELSE LET speed == AddRunSpeedReqs(x.min_extra_run_speed, x.max_extra_run_speed,
                                           x.heated, e.min_extra_run_speed,
                                           e.max_extra_run_speed, sc)
              IN  IF ~speed.ok THEN NoReqs
                  ELSE SomeReqs(speed.reqs \cup {"canMockball"} \cup BounceReqs,
                                speed.reqs)
    ELSE IF x.kind = "LeaveWithSpringBallBounce"
    THEN IF \/ x.blue = "Yes"
            \/ x.length < e.min_tiles
            \/ /\ x.movement_type # e.movement_type
               /\ x.movement_type # "Any"
               /\ e.movement_type # "Any"
         THEN NoReqs
         ELSE LET speed == AddRunSpeedReqs(x.min_extra_run_speed, x.max_extra_run_speed,
                                           x.heated, e.min_extra_run_speed,
                                           e.max_extra_run_speed, sc)
              IN  IF ~speed.ok THEN NoReqs
                  ELSE SomeReqs(speed.reqs
                                   \cup (IF \/ x.movement_type = "Controlled"
                                            \/ e.movement_type = "Controlled"
                                         THEN {"canMockball"} ELSE {})
                                   \cup BounceReqs,
                                speed.reqs)
    ELSE IF x.kind = "LeaveWithRunway"
    THEN LET speed == AddRunSpeedReqs(0, 7, x.heated, e.min_extra_run_speed,
                                      e.max_extra_run_speed, sc)
         IN  IF ~speed.ok THEN NoReqs
             ELSE SomeReqs(speed.reqs \cup GravityReq(x)
                              \cup (IF x.heated THEN {"HeatFrames"} ELSE {})
                              \cup (IF e.movement_type = "Controlled"
                                    THEN {"canMockball"} ELSE {})
                              \cup BounceReqs,
                           speed.reqs)
    ELSE NoReqs

ExitConditions ==
    [kind : {"LeaveWithRunway", "LeaveSpinning", "LeaveWithMockball",
             "LeaveWithSpringBallBounce"},
     length : {2, 10},
     heated : BOOLEAN,
     physics : {"Air", "Water"},
     blue : {"Yes", "No", "Any"},
     movement_type : {"Controlled", "Uncontrolled", "Any"},
     min_extra_run_speed : {0, 2},
     max_extra_run_speed : {7}]

EntranceConditions ==
    [kind : {"ComeInGettingBlueSpeed", "ComeInBlueSpinning",
             "ComeInWithBlueSpringBallBounce"},
     min_tiles : {5},
     runway_heated : BOOLEAN,
     movement_type : {"Controlled", "Uncontrolled"},
     min_extra_run_speed : {0},
     max_extra_run_speed : {1, 7}]

ShortchargeWindows ==
    [min_speed : {0}, max_speed : {-1, 7},
     heated_min_speed : {0, 5}, heated_max_speed : {-1, 7}]

SpeedInit ==
    /\ DoorsIdle
    /\ RandIdle
    /\ n_pc = "speed"
    /\ n_cfg \in [exit : ExitConditions, entrance : EntranceConditions,
                  shortcharge : ShortchargeWindows]
    /\ n_out = NoReqs

\* the entrance condition is matched against the exit condition
SpeedReqs ==
    /\ n_pc = "speed"
    /\ n_pc' = "speed_done"
    /\ n_out' = CASE n_cfg.entrance.kind = "ComeInGettingBlueSpeed" ->
                       GetComeInGettingBlueSpeedReqs(n_cfg.exit, n_cfg.entrance,
                                                     n_cfg.shortcharge)
                  [] n_cfg.entrance.kind = "ComeInBlueSpinning" ->
                       GetComeInBlueSpinningReqs(n_cfg.exit, n_cfg.entrance,
                                                 n_cfg.shortcharge)
                  [] OTHER ->
                       GetComeInWithBlueSpringBallBounceReqs(n_cfg.exit, n_cfg.entrance,
                                                             n_cfg.shortcharge)
    /\ UNCHANGED n_cfg
    /\ UNCHANGED <<doorVars, randVars>>

SpeedNext == SpeedReqs

SpecSpeed == SpeedInit /\ [][SpeedNext]_vars

\* C30: whenever add_run_speed_reqs returns true after pushing a Varia
\* requirement, the requirement that the calling entrance-condition function
\* returns has that Varia requirement as a conjunct, for every caller and
\* every exit condition it accepts.
C30_RunSpeedReqsKept ==
    (n_pc = "speed_done" /\ n_out.tag = "Some") => n_out.pushed \subseteq n_out.reqs

====
